---- MODULE Spec2Model ----
(***************************************************************************)
(* State-machine model of the relational engine: the catalog               *)
(* (catalog/schema_manager.py), the record and index files                 *)
(* (storage/disk_manager.py, storage/index/index_manager.py) and the       *)
(* statement handlers of the executor (execution/executor.py).             *)
(*                                                                         *)
(* One action per statement kind; an action is the whole handler, from     *)
(* Executor.execute to the returned status or the raised error.            *)
(*                                                                         *)
(* Encoding of scalar values.  A stored value is an integer:               *)
(*   - an INTEGER value n >= 0 is n itself;                                *)
(*   - a STRING value is a member of StrVals (101 = 'John Doe',            *)
(*     102 = 'Jane Smith', 103 = 'John');                                  *)
(*   - Python's None (an absent field read with dict.get) is None.         *)
(* A Python dict is a function whose DOMAIN is the set of its keys.        *)
(***************************************************************************)
EXTENDS Integers, Sequences, FiniteSets, TLC

VARIABLES
    tables,        \* SchemaManager.tables:       name -> [name, record_count]
    columns,       \* SchemaManager.columns:      name -> sequence of column definitions
    indexes,       \* SchemaManager.indexes:      name -> sequence of indexed column names
    primary_keys,  \* SchemaManager.primary_keys: name -> column name
    foreign_keys,  \* SchemaManager.foreign_keys: name -> (column -> [table, column])
    table_files,   \* data/<table>.dat:           name -> sequence of records
    index_files,   \* indexes/<table>_<col>.idx:  <<name, column>> -> (key -> sequence of ids)
    table_aliases, \* Executor.table_aliases:     alias -> table name, kept between statements
    result,        \* the statement last executed and its outcome
    statements     \* the number of statements executed so far

vars == <<tables, columns, indexes, primary_keys, foreign_keys,
          table_files, index_files, table_aliases, result, statements>>

catalog == <<tables, columns, indexes, primary_keys, foreign_keys>>

(***************************************************************************)
(* Bounds of the explored input space.                                     *)
(***************************************************************************)
MaxRecords == 2      \* record slots in all files together, beyond which INSERT is not tried
MaxStatements == 5   \* statements submitted in one run
MaxLit == 1          \* largest integer literal a statement may carry

(***************************************************************************)
(* Values and dictionaries.                                                *)
(***************************************************************************)
None == 0 - 1
StrVals == {101, 102, 103}
EmptyDict == [k \in {} |-> 0]

Put(d, k, v) == [x \in (DOMAIN d) \cup {k} |-> IF x = k THEN v ELSE d[x]]
Del(d, k) == [x \in (DOMAIN d) \ {k} |-> d[x]]
Get(d, k) == IF k \in DOMAIN d THEN d[k] ELSE None

Range(s) == {s[i] : i \in 1..Len(s)}
Append1(s, e) == s \o <<e>>
Remove(s, e) == SelectSeq(s, LAMBDA y : y # e)

\* a column definition as the parser builds it
Col(n, t, pk, ai) == [name |-> n, type |-> t, primary_key |-> pk, auto_increment |-> ai]

(***************************************************************************)
(* The world a handler works on: the catalog, the files and the aliases   *)
(* the executor remembers.  A handler is an operator from the world before *)
(* to the world after, so that the calls it makes are applied in the order *)
(* the code makes them.                                                    *)
(***************************************************************************)
World == [tables |-> tables, columns |-> columns, indexes |-> indexes,
          primary_keys |-> primary_keys, foreign_keys |-> foreign_keys,
          table_files |-> table_files, index_files |-> index_files,
          table_aliases |-> table_aliases]

(***************************************************************************)
(* SchemaManager helper methods.                                           *)
(***************************************************************************)
table_exists(w, table_name) == table_name \in DOMAIN w.tables

column_names(cols) == {cols[i].name : i \in 1..Len(cols)}

column_exists(w, table_name, column_name) ==
    /\ table_exists(w, table_name)
    /\ table_name \in DOMAIN w.columns
    /\ column_name \in column_names(w.columns[table_name])

index_exists(w, table_name, column_name) ==
    /\ table_exists(w, table_name)
    /\ table_name \in DOMAIN w.indexes
    /\ column_name \in Range(w.indexes[table_name])

\* Python's None where a column name is expected (dict.get on primary_keys)
NoColumn == ""

get_primary_key(w, table_name) ==
    IF table_name \in DOMAIN w.primary_keys THEN w.primary_keys[table_name] ELSE NoColumn

get_foreign_keys(w, table_name) ==
    IF table_name \in DOMAIN w.foreign_keys THEN w.foreign_keys[table_name] ELSE EmptyDict

get_column(cols, column_name) ==
    cols[CHOOSE j \in 1..Len(cols) : cols[j].name = column_name]

(***************************************************************************)
(* Records.  A record is a dict from column names to values plus the       *)
(* reserved keys "__id__" and, once tombstoned, "__deleted__".             *)
(***************************************************************************)
IsDeleted(r) == "__deleted__" \in DOMAIN r

LiveIds(records) == {i \in 1..Len(records) : ~IsDeleted(records[i])}

\* the records of a file that are not tombstoned, in their order
active_records(records) == SelectSeq(records, LAMBDA r : ~IsDeleted(r))

(***************************************************************************)
(* IndexManager / DiskManager index operations.  An index is a dict        *)
(* key -> list of record ids; the source stores a lone id as a scalar and  *)
(* two or more as a list, and every reader treats a scalar x as [x].       *)
(***************************************************************************)
lookup(index, key) == IF key \in DOMAIN index THEN index[key] ELSE <<>>

delete_from_index(index, key, record_id) ==
    IF key \in DOMAIN index
    THEN LET rest == Remove(index[key], record_id)
         IN IF rest = <<>> THEN Del(index, key) ELSE Put(index, key, rest)
    ELSE index

update_index(index, key, record_id, old_key) ==
    LET removed == IF old_key # None /\ old_key \in DOMAIN index
                   THEN delete_from_index(index, old_key, record_id)
                   ELSE index
    IN IF key \in DOMAIN removed
       THEN IF record_id \in Range(removed[key])
            THEN removed
            ELSE Put(removed, key, Append1(removed[key], record_id))
       ELSE Put(removed, key, <<record_id>>)

RECURSIVE rebuild_index_from(_, _, _, _)
rebuild_index_from(records, column_name, i, index) ==
    IF i > Len(records) THEN index
    ELSE LET record == records[i]
             key == Get(record, column_name)
             record_id == record["__id__"]
         IN IF IsDeleted(record)
            THEN rebuild_index_from(records, column_name, i + 1, index)
            ELSE rebuild_index_from(records, column_name, i + 1,
                    Put(index, key, Append1(lookup(index, key), record_id)))

rebuild_index(records, column_name) == rebuild_index_from(records, column_name, 1, EmptyDict)

(***************************************************************************)
(* What a method hands back: the world it leaves and, when it raised, the  *)
(* error.  A raise keeps every write made before it.                       *)
(***************************************************************************)
Ok(w) == [ok |-> TRUE, error |-> "", w |-> w]
Raise(e, w) == [ok |-> FALSE, error |-> e, w |-> w]

\* the same for a statement handler, with the number of records it reports
Done(w, count) == [ok |-> TRUE, error |-> "", w |-> w, count |-> count]
Fail(e, w, count) == [ok |-> FALSE, error |-> e, w |-> w, count |-> count]

(***************************************************************************)
(* SchemaManager: DDL.                                                     *)
(***************************************************************************)
SchemaManager_create_index(w, table_name, column_name) ==
    IF ~table_exists(w, table_name) THEN Raise("table does not exist", w)
    ELSE IF ~column_exists(w, table_name, column_name) THEN Raise("column does not exist", w)
    ELSE IF index_exists(w, table_name, column_name) THEN Raise("index already exists", w)
    ELSE LET current == IF table_name \in DOMAIN w.indexes THEN w.indexes[table_name] ELSE <<>>
         IN Ok([w EXCEPT !.index_files = Put(@, <<table_name, column_name>>, EmptyDict),
                         !.indexes = Put(@, table_name, Append1(current, column_name))])

\* drop_index, lines 283-290: the entry leaves the catalog and the file is deleted
RemoveIndex(w, table_name, column_name) ==
    LET rest == Remove(w.indexes[table_name], column_name)
    IN [w EXCEPT !.index_files = Del(@, <<table_name, column_name>>),
                 !.indexes = IF rest = <<>> THEN Del(@, table_name)
                             ELSE Put(@, table_name, rest)]

\* drop_index that does not look at the primary key
drop_index_of_any_column(w, table_name, column_name) ==
    IF ~table_exists(w, table_name) THEN Raise("table does not exist", w)
    ELSE IF ~index_exists(w, table_name, column_name) THEN Raise("no index exists", w)
    ELSE Ok(RemoveIndex(w, table_name, column_name))

SchemaManager_drop_index(w, table_name, column_name) ==
    IF ~table_exists(w, table_name) THEN Raise("table does not exist", w)
    ELSE IF ~index_exists(w, table_name, column_name) THEN Raise("no index exists", w)
    ELSE IF table_name \in DOMAIN w.primary_keys /\ w.primary_keys[table_name] = column_name
         THEN Raise("cannot drop index for primary key column", w)
    ELSE Ok(RemoveIndex(w, table_name, column_name))

\* the auto-increment rule of create_table: the first offending column decides
AutoIncrementError(cols, primary_key) ==
    LET bad == {i \in 1..Len(cols) :
                  /\ cols[i].auto_increment
                  /\ \/ cols[i].type # "INTEGER"
                     \/ ~cols[i].primary_key /\ cols[i].name # primary_key}
    IN IF bad = {} THEN ""
       ELSE LET i == CHOOSE j \in bad : \A k \in bad : j <= k
            IN IF cols[i].type # "INTEGER"
               THEN "auto-increment column must be of INTEGER type"
               ELSE "auto-increment column must be a PRIMARY KEY"

\* the foreign-key rule of create_table
ForeignKeyError(w, cols, fks) ==
    IF \E c \in DOMAIN fks : c \notin column_names(cols)
    THEN "foreign key column not defined in table"
    ELSE IF \E c \in DOMAIN fks : ~table_exists(w, fks[c].table)
    THEN "referenced table does not exist"
    ELSE IF \E c \in DOMAIN fks : ~column_exists(w, fks[c].table, fks[c].column)
    THEN "referenced column does not exist"
    ELSE IF \E c \in DOMAIN fks : fks[c].column # get_primary_key(w, fks[c].table)
    THEN "foreign keys must reference primary key columns"
    ELSE ""

SchemaManager_create_table(w, table_name, cols, primary_key, fks) ==
    IF table_exists(w, table_name) THEN Raise("table already exists", w)
    ELSE IF Cardinality(column_names(cols)) # Len(cols)
         THEN Raise("duplicate column names", w)
    ELSE IF primary_key # NoColumn /\ primary_key \notin column_names(cols)
         THEN Raise("primary key must be one of the columns", w)
    ELSE IF AutoIncrementError(cols, primary_key) # ""
         THEN Raise(AutoIncrementError(cols, primary_key), w)
    ELSE IF ForeignKeyError(w, cols, fks) # "" THEN Raise(ForeignKeyError(w, cols, fks), w)
    ELSE LET w1 == [w EXCEPT !.table_files = Put(@, table_name, <<>>),
                             !.tables = Put(@, table_name,
                                            [name |-> table_name, record_count |-> 0]),
                             !.columns = Put(@, table_name, cols)]
             w2 == IF primary_key # NoColumn
                   THEN [w1 EXCEPT !.primary_keys = Put(@, table_name, primary_key)]
                   ELSE w1
             r3 == IF primary_key # NoColumn
                   THEN SchemaManager_create_index(w2, table_name, primary_key)
                   ELSE Ok(w2)
         IN IF ~r3.ok THEN r3
            ELSE IF fks # EmptyDict
                 THEN Ok([r3.w EXCEPT !.foreign_keys = Put(@, table_name, fks)])
                 ELSE r3

RECURSIVE DeleteIndexFiles(_, _, _)
DeleteIndexFiles(files, table_name, cols) ==
    IF cols = <<>> THEN files
    ELSE DeleteIndexFiles(Del(files, <<table_name, Head(cols)>>), table_name, Tail(cols))

\* drop_table, lines 193-213: the files are deleted and the entries leave the catalog
RemoveTable(w, table_name) ==
    LET w1 == [w EXCEPT !.table_files = Del(@, table_name)]
        w2 == IF table_name \in DOMAIN w1.indexes
              THEN [w1 EXCEPT !.index_files =
                                  DeleteIndexFiles(@, table_name, w1.indexes[table_name]),
                              !.indexes = Del(@, table_name)]
              ELSE w1
    IN [w2 EXCEPT !.tables = Del(@, table_name),
                  !.columns = Del(@, table_name),
                  !.primary_keys = Del(@, table_name),
                  !.foreign_keys = Del(@, table_name)]

\* drop_table that does not look for referencing foreign keys
drop_table_without_reference_check(w, table_name) ==
    IF ~table_exists(w, table_name) THEN Raise("table does not exist", w)
    ELSE Ok(RemoveTable(w, table_name))

SchemaManager_drop_table(w, table_name) ==
    IF ~table_exists(w, table_name) THEN Raise("table does not exist", w)
    ELSE IF \E other \in DOMAIN w.foreign_keys :
              \E c \in DOMAIN w.foreign_keys[other] : w.foreign_keys[other][c].table = table_name
         THEN Raise("table is referenced", w)
    ELSE Ok(RemoveTable(w, table_name))

increment_record_count(w, table_name) ==
    IF table_exists(w, table_name)
    THEN [w EXCEPT !.tables[table_name].record_count = @ + 1]
    ELSE w

decrement_record_count(w, table_name, count) ==
    IF table_exists(w, table_name)
    THEN [w EXCEPT !.tables[table_name].record_count = IF @ - count < 0 THEN 0 ELSE @ - count]
    ELSE w

(***************************************************************************)
(* SchemaManager: constraint look-ups (index when there is one, else a     *)
(* scan of the live records).                                              *)
(***************************************************************************)
ScanFor(w, table_name, column_name, value) ==
    /\ table_name \in DOMAIN w.table_files
    /\ \E i \in LiveIds(w.table_files[table_name]) :
          Get(w.table_files[table_name][i], column_name) = value

primary_key_exists(w, table_name, value) ==
    LET pk_column == get_primary_key(w, table_name)
    IN IF pk_column = NoColumn THEN FALSE
       ELSE IF index_exists(w, table_name, pk_column)
            THEN Len(lookup(w.index_files[<<table_name, pk_column>>], value)) > 0
            ELSE ScanFor(w, table_name, pk_column, value)

foreign_key_exists(w, table_name, column_name, value) ==
    IF ~table_exists(w, table_name) \/ ~column_exists(w, table_name, column_name) THEN FALSE
    ELSE IF index_exists(w, table_name, column_name)
         THEN Len(lookup(w.index_files[<<table_name, column_name>>], value)) > 0
         ELSE ScanFor(w, table_name, column_name, value)

(***************************************************************************)
(* Names.  Identifiers carry no dot, so a dotted name "p.c" is a prefix p  *)
(* (a table name or an alias) and a column name c; the string tests the    *)
(* source makes on names are decided over the names the model uses.        *)
(***************************************************************************)
TableNames == {"students", "courses", "enroll"}
ColumnNames == {"id", "title", "cid"}
Aliases == {"c", "e"}

Prefixes == TableNames \cup Aliases
Suffixes == ColumnNames \cup {"name", "age"}

\* f"{prefix}.{column}"
Dot(prefix, column) == prefix \o "." \o column

DottedNames == {Dot(p, c) : p \in Prefixes, c \in Suffixes}

\* "." in name
HasDot(name) == name \in DottedNames

\* name.split(".", 1)
SplitDot(name) == CHOOSE pc \in Prefixes \X Suffixes : name = Dot(pc[1], pc[2])

\* key.endswith("." + column)
EndsWith(key, column) == \E p \in Prefixes : key = Dot(p, column)

\* name.startswith(prefix + ".")
StartsWith(name, prefix) == \E c \in Suffixes : name = Dot(prefix, c)

\* Python's None where an alias is expected
NoAlias == ""

(***************************************************************************)
(* Executor: conditions.  A condition is [type |-> "none"] (no clause), a  *)
(* comparison, or an "and" / "or" of two conditions.  The left operand of  *)
(* a comparison is always a column (the grammar allows nothing else) and   *)
(* is kept as its name; the right operand is a literal or a column.        *)
(* A match is the pair <<position in the file, record>>, positions counted *)
(* from 0.                                                                 *)
(***************************************************************************)
NoWhere == [type |-> "none"]

Comparison(c, op, lit) == [type |-> "comparison", left |-> c, operator |-> op, right |-> lit]

And(l, r) == [type |-> "and", left |-> l, right |-> r]
Or(l, r) == [type |-> "or", left |-> l, right |-> r]

IntLit(n) == [type |-> "integer", value |-> n]
StrLit(v) == [type |-> "string", value |-> v]
ColumnRef(n) == [type |-> "column", name |-> n]

\* The first key of the record, in dict order, that ends with "." + column.
\* A record read from a file has no dotted key; in a joined record the keys
\* under the prefix `first` were inserted before the others, and there is at
\* most one key per prefix.
FirstKeyEndingWith(record, first, column) ==
    IF Dot(first, column) \in DOMAIN record THEN Dot(first, column)
    ELSE CHOOSE key \in DOMAIN record : EndsWith(key, column)

\* lines 2296-2298: the column's value in the first live record of the file
\* that has the column
FirstStoredValue(w, real_table, column) ==
    IF real_table \notin DOMAIN w.table_files THEN None
    ELSE LET records == w.table_files[real_table]
             having == {i \in LiveIds(records) : column \in DOMAIN records[i]}
         IN IF having = {} THEN None
            ELSE records[CHOOSE i \in having : \A j \in having : i <= j][column]

\* lines 2254-2343: the value of a column reference in a record
ColumnValue(w, first, column_name, record) ==
    IF column_name \in DOMAIN record THEN record[column_name]
    ELSE IF HasDot(column_name)
    THEN LET table_prefix == SplitDot(column_name)[1]
             column == SplitDot(column_name)[2]
         IN IF table_prefix \in DOMAIN w.table_aliases
            THEN LET real_key == Dot(w.table_aliases[table_prefix], column)
                 IN IF real_key \in DOMAIN record THEN record[real_key]
                    ELSE IF column \in DOMAIN record THEN record[column]
                    ELSE IF \E key \in DOMAIN record : EndsWith(key, column)
                         THEN record[FirstKeyEndingWith(record, first, column)]
                    ELSE FirstStoredValue(w, w.table_aliases[table_prefix], column)
            ELSE \* lines 2305-2334: the keys Table.column and alias.column of
                 \* every known alias, then a match on the bare column name
                 LET keys == {Dot(w.table_aliases[a], column) : a \in DOMAIN w.table_aliases}
                             \cup {Dot(a, column) : a \in DOMAIN w.table_aliases}
                 IN IF keys \cap DOMAIN record # {}
                    THEN record[CHOOSE key \in keys \cap DOMAIN record : TRUE]
                    ELSE Get(record, column)
    ELSE IF \E key \in DOMAIN record : EndsWith(key, column_name)
         THEN record[FirstKeyEndingWith(record, first, column_name)]
    ELSE None

\* lines 2237-2386
_get_expression_value(w, first, expression, record) ==
    CASE expression.type = "column" -> ColumnValue(w, first, expression.name, record)
      [] expression.type \in {"integer", "string"} -> expression.value
      [] OTHER -> None

\* lines 2166-2197; LIKE is taken for patterns without % and _, for which it
\* is equality of two strings
\* (the TypeError of an ordering operator between a string and an integer is
\* CompareRaises)
Compare(left_value, operator, right_value) ==
    CASE operator = "=" -> left_value = right_value
      [] operator \in {"!=", "<>"} -> left_value # right_value
      [] operator = "<" -> left_value < right_value
      [] operator = "<=" -> left_value <= right_value
      [] operator = ">" -> left_value > right_value
      [] operator = ">=" -> left_value >= right_value
      [] operator = "LIKE" -> /\ left_value \in StrVals
                              /\ right_value \in StrVals
                              /\ left_value = right_value
      [] OTHER -> FALSE

\* lines 2089-2235
RECURSIVE _evaluate_condition(_, _, _, _)
_evaluate_condition(w, first, condition, record) ==
    CASE condition.type = "none" -> TRUE
      [] condition.type = "comparison" ->
            LET left_value == ColumnValue(w, first, condition.left, record)
                right_value == _get_expression_value(w, first, condition.right, record)
            IN IF left_value = None \/ right_value = None THEN FALSE
               ELSE Compare(left_value, condition.operator, right_value)
      [] condition.type = "and" ->
            IF ~_evaluate_condition(w, first, condition.left, record) THEN FALSE
            ELSE _evaluate_condition(w, first, condition.right, record)
      [] condition.type = "or" ->
            IF _evaluate_condition(w, first, condition.left, record) THEN TRUE
            ELSE _evaluate_condition(w, first, condition.right, record)
      [] OTHER -> FALSE

\* a scan that does not pass over the tombstoned records
where_with_tombstones(w, table_name, condition) ==
    LET all_records == w.table_files[table_name]
        hits == SelectSeq([i \in 1..Len(all_records) |-> i],
                          LAMBDA i : _evaluate_condition(w, NoAlias, condition, all_records[i]))
    IN [k \in 1..Len(hits) |-> <<hits[k] - 1, all_records[hits[k]]>>]

_execute_where(w, table_name, condition) ==
    LET all_records == w.table_files[table_name]
        hits == SelectSeq([i \in 1..Len(all_records) |-> i],
                          LAMBDA i : /\ ~IsDeleted(all_records[i])
                                     /\ _evaluate_condition(w, NoAlias, condition,
                                                            all_records[i]))
    IN [k \in 1..Len(hits) |-> <<hits[k] - 1, all_records[hits[k]]>>]

(***************************************************************************)
(* Executor: INSERT.                                                       *)
(***************************************************************************)
TypeMismatch(col, v) ==
    \/ col.type = "INTEGER" /\ v.type # "integer"
    \/ col.type = "STRING" /\ v.type # "string"

\* lines 553-616: the record the statement describes, or the error raised
InsertRecord(all_columns, q) ==
    IF q.columns # <<>>
    THEN IF Len(q.columns) # Len(q.values) THEN Raise("column count mismatch", EmptyDict)
         ELSE LET unknown(i) == q.columns[i] \notin column_names(all_columns)
                  bad == {i \in 1..Len(q.columns) :
                            \/ unknown(i)
                            \/ TypeMismatch(get_column(all_columns, q.columns[i]), q.values[i])}
              IN IF bad # {}
                 THEN IF unknown(CHOOSE i \in bad : \A k \in bad : i <= k)
                      THEN Raise("column does not exist", EmptyDict)
                      ELSE Raise("type mismatch", EmptyDict)
                 ELSE Ok([c \in Range(q.columns) |->
                            q.values[CHOOSE i \in 1..Len(q.columns) :
                                /\ q.columns[i] = c
                                /\ \A j \in 1..Len(q.columns) : q.columns[j] = c => j <= i].value])
    ELSE IF Len(all_columns) # Len(q.values) THEN Raise("column count mismatch", EmptyDict)
         ELSE IF \E i \in 1..Len(all_columns) : TypeMismatch(all_columns[i], q.values[i])
              THEN Raise("type mismatch", EmptyDict)
         ELSE Ok([c \in column_names(all_columns) |->
                    q.values[CHOOSE i \in 1..Len(all_columns) : all_columns[i].name = c].value])

IsInt(v) == v >= 0 /\ v \notin StrVals

Max(S) == CHOOSE m \in S : \A n \in S : n <= m

\* lines 624: the primary key the statement gives is missing, null or zero
value_missing(record, primary_key) ==
    \/ primary_key \notin DOMAIN record
    \/ record[primary_key] = None
    \/ record[primary_key] = 0

\* lines 629-647: the next primary-key value
NextPrimaryKey(w, table_name, primary_key) ==
    IF table_name \notin DOMAIN w.table_files THEN 1
    ELSE LET existing_records == w.table_files[table_name]
             pks == {Get(existing_records[i], primary_key) : i \in LiveIds(existing_records)}
             max_pk == Max({v \in pks : v # 0 /\ IsInt(v)} \cup {0})
         IN IF existing_records # <<>> THEN max_pk + 1 ELSE 1

\* lines 618-655: auto-increment of an INTEGER primary key
AutoIncrement(w, table_name, all_columns, primary_key, q, record) ==
    IF primary_key = NoColumn \/ primary_key \notin column_names(all_columns) THEN Ok(record)
    ELSE IF get_column(all_columns, primary_key).type # "INTEGER" THEN Ok(record)
    ELSE IF ~value_missing(record, primary_key) THEN Ok(record)
    ELSE LET assigned == Put(record, primary_key, NextPrimaryKey(w, table_name, primary_key))
             \* values[i] is written at the primary key's position among all columns
             i == CHOOSE j \in 1..Len(all_columns) : all_columns[j].name = primary_key
         IN IF i > Len(q.values) THEN Raise("list index out of range", assigned)
            ELSE Ok(assigned)

\* lines 665-679
ForeignKeyViolated(w, fks, record) ==
    \E fk_column \in DOMAIN fks :
        /\ fk_column \in DOMAIN record
        /\ record[fk_column] # None
        /\ ~foreign_key_exists(w, fks[fk_column].table, fks[fk_column].column, record[fk_column])

\* the record stored under the number of live records instead
store_record_at_live_count(w, table_name, record) ==
    LET records == IF table_name \in DOMAIN w.table_files THEN w.table_files[table_name] ELSE <<>>
        stored == Put(record, "__id__", Cardinality(LiveIds(records)))
        w1 == [w EXCEPT !.table_files = Put(@, table_name, Append1(records, stored))]
    IN increment_record_count(w1, table_name)

\* lines 681-704
StoreRecord(w, table_name, record) ==
    LET records == IF table_name \in DOMAIN w.table_files THEN w.table_files[table_name] ELSE <<>>
        stored == Put(record, "__id__", Len(records))
        w1 == [w EXCEPT !.table_files = Put(@, table_name, Append1(records, stored))]
        w2 == [w1 EXCEPT !.index_files =
                 [k \in DOMAIN @ |->
                    IF k[1] = table_name /\ k[2] \in DOMAIN stored
                       /\ index_exists(w1, table_name, k[2])
                    THEN update_index(@[k], stored[k[2]], stored["__id__"], None)
                    ELSE @[k]]]
    IN increment_record_count(w2, table_name)

_execute_insert(w, q) ==
    IF ~table_exists(w, q.table_name) THEN Fail("table does not exist", w, 0)
    ELSE LET all_columns == w.columns[q.table_name]
             primary_key == get_primary_key(w, q.table_name)
             fks == get_foreign_keys(w, q.table_name)
             built == InsertRecord(all_columns, q)
         IN IF ~built.ok THEN Fail(built.error, w, 0)
            ELSE LET auto == AutoIncrement(w, q.table_name, all_columns, primary_key, q, built.w)
                     record == auto.w
                 IN IF ~auto.ok THEN Fail(auto.error, w, 0)
                    ELSE IF primary_key # NoColumn /\ primary_key \in DOMAIN record
                            /\ primary_key_exists(w, q.table_name, record[primary_key])
                         THEN Fail("duplicate primary key value", w, 0)
                    ELSE IF ForeignKeyViolated(w, fks, record)
                         THEN Fail("foreign key constraint violation", w, 0)
                    ELSE Done(StoreRecord(w, q.table_name, record), 1)

(***************************************************************************)
(* Executor: UPDATE.  The handler works through the matched records in     *)
(* file order and, for each, through the SET list in the order written;    *)
(* an index is rewritten as soon as its SET item is applied, the           *)
(* constraint checks follow, and the record is written last.               *)
(***************************************************************************)
SetColumns(set_items) == {set_items[i].column : i \in 1..Len(set_items)}

\* lines 737-760
RECURSIVE ApplySetItems(_, _, _, _, _, _)
ApplySetItems(w, table_name, set_items, i, record_id, updated_record) ==
    IF i > Len(set_items) THEN [ok |-> TRUE, error |-> "", w |-> w, record |-> updated_record]
    ELSE LET col_name == set_items[i].column
             value == set_items[i].value
             known == col_name \in column_names(w.columns[table_name])
         IN IF ~known
            THEN [ok |-> FALSE, error |-> "column does not exist", w |-> w,
                  record |-> updated_record]
            ELSE IF TypeMismatch(get_column(w.columns[table_name], col_name), value)
            THEN [ok |-> FALSE, error |-> "type mismatch", w |-> w, record |-> updated_record]
            ELSE LET old_value == Get(updated_record, col_name)
                     w1 == IF index_exists(w, table_name, col_name)
                           THEN [w EXCEPT !.index_files[<<table_name, col_name>>] =
                                     update_index(@, value.value, record_id, old_value)]
                           ELSE w
                 IN ApplySetItems(w1, table_name, set_items, i + 1, record_id,
                                  Put(updated_record, col_name, value.value))

\* lines 762-770
DuplicatePrimaryKey(w, table_name, primary_key, set_items, record_id, updated_record) ==
    /\ primary_key # NoColumn
    /\ primary_key \in SetColumns(set_items)
    /\ index_exists(w, table_name, primary_key)
    /\ LET pk_records == lookup(w.index_files[<<table_name, primary_key>>],
                                updated_record[primary_key])
       IN pk_records # <<>> /\ (Len(pk_records) > 1 \/ pk_records[1] # record_id)

\* lines 772-784
MissingReferent(w, fks, set_items, updated_record) ==
    \E fk_col \in DOMAIN fks :
        /\ fk_col \in SetColumns(set_items)
        /\ index_exists(w, fks[fk_col].table, fks[fk_col].column)
        /\ lookup(w.index_files[<<fks[fk_col].table, fks[fk_col].column>>],
                  updated_record[fk_col]) = <<>>

\* DiskManager.update_record
update_record(w, table_name, record_id, record) ==
    [w EXCEPT !.table_files[table_name][record_id + 1] = Put(record, "__id__", record_id)]

\* lines 733-788
RECURSIVE UpdateRecords(_, _, _, _, _)
UpdateRecords(w, q, matching_records, j, update_count) ==
    IF j > Len(matching_records) THEN Done(w, update_count)
    ELSE LET record_id == matching_records[j][1]
             applied == ApplySetItems(w, q.table_name, q.set_items, 1, record_id,
                                      matching_records[j][2])
         IN IF ~applied.ok THEN Fail(applied.error, applied.w, update_count)
            ELSE IF DuplicatePrimaryKey(applied.w, q.table_name,
                                        get_primary_key(w, q.table_name), q.set_items,
                                        record_id, applied.record)
                 THEN Fail("duplicate primary key value", applied.w, update_count)
            ELSE IF MissingReferent(applied.w, get_foreign_keys(w, q.table_name),
                                    q.set_items, applied.record)
                 THEN Fail("foreign key constraint violation", applied.w, update_count)
            ELSE UpdateRecords(update_record(applied.w, q.table_name, record_id, applied.record),
                               q, matching_records, j + 1, update_count + 1)

_execute_update(w, q) ==
    IF q.table_name \notin DOMAIN w.table_files THEN Fail("table file does not exist", w, 0)
    ELSE LET matching_records == _execute_where(w, q.table_name, q.where)
         IN IF matching_records = <<>> THEN Done(w, 0)
            ELSE IF ~table_exists(w, q.table_name) THEN Fail("table does not exist", w, 0)
            ELSE UpdateRecords(w, q, matching_records, 1, 0)

(***************************************************************************)
(* Executor: DELETE.                                                       *)
(***************************************************************************)
\* lines 808-828: some matched record is referenced through an indexed foreign key
Referenced(w, table_name, matching_records) ==
    \E j \in 1..Len(matching_records) :
      \E other_table \in (DOMAIN w.tables) \ {table_name} :
        \E fk_col \in DOMAIN get_foreign_keys(w, other_table) :
          LET fk_ref == get_foreign_keys(w, other_table)[fk_col]
          IN /\ fk_ref.table = table_name
             /\ index_exists(w, other_table, fk_col)
             /\ lookup(w.index_files[<<other_table, fk_col>>],
                       Get(matching_records[j][2], fk_ref.column)) # <<>>

\* DiskManager.delete_record
delete_record(w, table_name, record_id) ==
    [w EXCEPT !.table_files[table_name][record_id + 1] = Put(@, "__deleted__", 1)]

\* lines 830-839
RECURSIVE DeleteRecords(_, _, _, _)
DeleteRecords(w, table_name, matching_records, j) ==
    IF j > Len(matching_records) THEN w
    ELSE LET record_id == matching_records[j][1]
             record == matching_records[j][2]
             w1 == [w EXCEPT !.index_files =
                      [k \in DOMAIN @ |->
                         IF k[1] = table_name /\ k[2] \in DOMAIN record
                            /\ index_exists(w, table_name, k[2])
                         THEN delete_from_index(@[k], record[k[2]], record_id)
                         ELSE @[k]]]
         IN DeleteRecords(delete_record(w1, table_name, record_id),
                          table_name, matching_records, j + 1)

_execute_delete(w, q) ==
    IF q.table_name \notin DOMAIN w.table_files THEN Fail("table file does not exist", w, 0)
    ELSE LET matching_records == _execute_where(w, q.table_name, q.where)
         IN IF matching_records = <<>> THEN Done(w, 0)
            ELSE IF Referenced(w, q.table_name, matching_records)
                 THEN Fail("record is referenced", w, 0)
            ELSE Done(decrement_record_count(
                          DeleteRecords(w, q.table_name, matching_records, 1),
                          q.table_name, Len(matching_records)),
                      Len(matching_records))

(***************************************************************************)
(* Executor: DDL.                                                          *)
(***************************************************************************)
\* lines 318-319: the sample rows written into a table named students
SampleRecords ==
    << [c \in {"__id__", "id", "name", "age"} |->
          CASE c = "__id__" -> 0 [] c = "id" -> 1 [] c = "name" -> 101 [] c = "age" -> 20],
       [c \in {"__id__", "id", "name", "age"} |->
          CASE c = "__id__" -> 1 [] c = "id" -> 2 [] c = "name" -> 102 [] c = "age" -> 22] >>

_execute_create_table(w, q) ==
    LET made == SchemaManager_create_table(w, q.table_name, q.columns, q.primary_key,
                                           q.foreign_keys)
    IN IF ~made.ok THEN Fail(made.error, made.w, 0)
       ELSE IF q.table_name = "students"
            THEN Done([made.w EXCEPT !.table_files[q.table_name] = @ \o SampleRecords], 0)
            ELSE Done(made.w, 0)

_execute_drop_table(w, q) ==
    LET dropped == SchemaManager_drop_table(w, q.table_name)
    IN IF dropped.ok THEN Done(dropped.w, 0) ELSE Fail(dropped.error, dropped.w, 0)

\* IndexManager.create_index: create the file, then rebuild it from the table
IndexManager_create_index(w, table_name, column_name) ==
    [w EXCEPT !.index_files = Put(@, <<table_name, column_name>>,
                                  rebuild_index(w.table_files[table_name], column_name))]

\* IndexManager.drop_index: delete the file if it is there
IndexManager_drop_index(w, table_name, column_name) ==
    [w EXCEPT !.index_files = Del(@, <<table_name, column_name>>)]

_execute_create_index(w, q) ==
    LET made == SchemaManager_create_index(w, q.table_name, q.column_name)
    IN IF ~made.ok THEN Fail(made.error, made.w, 0)
       ELSE Done(IndexManager_create_index(made.w, q.table_name, q.column_name), 0)

_execute_drop_index(w, q) ==
    LET dropped == SchemaManager_drop_index(w, q.table_name, q.column_name)
    IN IF ~dropped.ok THEN Fail(dropped.error, dropped.w, 0)
       ELSE Done(IndexManager_drop_index(dropped.w, q.table_name, q.column_name), 0)

(***************************************************************************)
(* Executor: SELECT.  The rows a stage hands to the next are pairs         *)
(* <<id, record>>, as in the source.  The statements of the model project  *)
(* * or aggregates and carry no GROUP BY.                                  *)
(***************************************************************************)
\* the FROM table: a name with an alias, or with NoAlias
TableRef(n, a) == [name |-> n, alias |-> a]

\* the LIMIT clause as the parser leaves it: no key, a number, or a dict
NoLimit == [type |-> "none"]
Limit(l) == [type |-> "number", limit |-> l]
LimitOffset(l, m) == [type |-> "dict", limit |-> l, offset |-> m]

NoJoin == [type |-> "none"]
NoOrder == <<>>
OrderItem(c, d) == [column |-> c, direction |-> d]

All == [type |-> "all"]
Aggregation(f, a, alias) == [type |-> "aggregation", function |-> f, argument |-> a, alias |-> alias]
Columns(cols) == [type |-> "columns", columns |-> cols]

SelectQuery(projection, table, join, where, order_by, having, limit) ==
    [type |-> "SELECT", projection |-> projection, table |-> table, join |-> join,
     where |-> where, order_by |-> order_by, having |-> having, limit |-> limit]

\* lines 1202-1207: _execute_where remembers the alias of an aliased table
RememberAlias(w, table) ==
    IF table.alias # NoAlias
    THEN [w EXCEPT !.table_aliases = Put(@, table.alias, table.name)]
    ELSE w

RECURSIVE Sum(_)
Sum(s) == IF s = <<>> THEN 0 ELSE Head(s) + Sum(Tail(s))

Min(S) == CHOOSE m \in S : \A n \in S : m <= n

\* COUNT of no record is None, as SUM, MIN and MAX of no value are
aggregate_absent_when_empty(function, column, records) ==
    IF records = <<>> THEN None
    ELSE IF function = "COUNT" THEN Len(records)
    ELSE None

\* lines 1125-1193; AVG, a float, is not among the functions of the model
_calculate_aggregate(function, column, records) ==
    LET value(record) ==
            IF column \in DOMAIN record THEN record[column]
            ELSE IF \E key \in DOMAIN record : EndsWith(key, column)
                 THEN record[CHOOSE key \in DOMAIN record : EndsWith(key, column)]
                 ELSE None
        all_values == [i \in 1..Len(records) |->
                         IF column = "*" /\ function = "COUNT" THEN 1 ELSE value(records[i][2])]
        values == IF function # "COUNT" THEN SelectSeq(all_values, LAMBDA v : v # None)
                  ELSE all_values
    IN IF values = <<>> THEN (IF function = "COUNT" THEN 0 ELSE None)
       ELSE CASE function = "COUNT" -> Len(values)
              [] function = "SUM" -> IF \A v \in Range(values) : IsInt(v) THEN Sum(values) ELSE None
              [] function = "MIN" -> IF \/ \A v \in Range(values) : IsInt(v)
                                        \/ \A v \in Range(values) : v \in StrVals
                                     THEN Min(Range(values)) ELSE None
              [] function = "MAX" -> IF \/ \A v \in Range(values) : IsInt(v)
                                        \/ \A v \in Range(values) : v \in StrVals
                                     THEN Max(Range(values)) ELSE None
              [] OTHER -> None

\* lines 942: the key an aggregate is stored under
OutputName(col) ==
    IF col.alias # NoAlias THEN col.alias
    ELSE col.function \o "(" \o col.argument \o ")"

\* lines 928-948: the implicit global aggregate; HAVING is looked at only
\* under GROUP BY
Aggregate(q, joined) ==
    LET has_agg == /\ q.projection.type = "columns"
                   /\ \E i \in 1..Len(q.projection.columns) :
                         q.projection.columns[i].type = "aggregation"
    IN IF has_agg
       THEN LET cols == q.projection.columns
                aggs == {i \in 1..Len(cols) : cols[i].type = "aggregation"}
                last(name) == CHOOSE i \in aggs : /\ OutputName(cols[i]) = name
                                                  /\ \A j \in aggs :
                                                        OutputName(cols[j]) = name => j <= i
                agg_record == [name \in {OutputName(cols[i]) : i \in aggs} |->
                                 _calculate_aggregate(cols[last(name)].function,
                                                      cols[last(name)].argument, joined)]
            IN << <<None, agg_record>> >>
       ELSE joined

\* lines 1851-1977, for * and for aggregates
_execute_projection(q, records) ==
    IF q.projection.type = "all" THEN records
    ELSE LET cols == q.projection.columns
             project(record) ==
                 [name \in {OutputName(cols[i]) : i \in 1..Len(cols)} |->
                    LET col == cols[CHOOSE i \in 1..Len(cols) : OutputName(cols[i]) = name]
                    IN IF name \in DOMAIN record THEN record[name]
                       ELSE IF col.argument = "*" /\ col.function = "COUNT" THEN 1
                       ELSE IF col.argument \in DOMAIN record THEN record[col.argument]
                       ELSE IF \E key \in DOMAIN record : EndsWith(key, col.argument)
                            THEN record[CHOOSE key \in DOMAIN record : EndsWith(key, col.argument)]
                       ELSE None]
         IN [i \in 1..Len(records) |-> <<records[i][1], project(records[i][2])>>]

\* what a stage of SELECT hands back: the rows, or the error it raised
RowsOf(w, rows) == [ok |-> TRUE, error |-> "", w |-> w, rows |-> rows]
NoRows(e, w) == [ok |-> FALSE, error |-> e, w |-> w, rows |-> <<>>]

\* float('inf'), above every number of the model
Infinity == 1000

\* the characters of a string, as ord gives them
Text(value) ==
    CASE value = 101 -> <<74, 111, 104, 110, 32, 68, 111, 101>>
      [] value = 102 -> <<74, 97, 110, 101, 32, 83, 109, 105, 116, 104>>
      [] OTHER -> <<74, 111, 104, 110>>

\* tuple(-ord(c) for c in value)
Negated(chars) == [i \in 1..Len(chars) |-> 0 - chars[i]]

\* lines 1998-2030: the value an ORDER BY column has in a record
OrderValue(w, column, record) ==
    IF HasDot(column)
    THEN IF column \in DOMAIN record THEN record[column]
         ELSE IF SplitDot(column)[2] \in DOMAIN record
              THEN record[SplitDot(column)[2]]
         ELSE IF SplitDot(column)[1] \in DOMAIN w.table_aliases
              THEN LET real_key == Dot(w.table_aliases[SplitDot(column)[1]],
                                       SplitDot(column)[2])
                   IN IF real_key \in DOMAIN record /\ record[real_key] # None
                      THEN record[real_key]
                      ELSE IF \E key \in DOMAIN record :
                                 EndsWith(key, SplitDot(column)[2])
                           THEN record[CHOOSE key \in DOMAIN record :
                                          EndsWith(key, SplitDot(column)[2])]
                           ELSE None
         ELSE None
    ELSE Get(record, column)

\* a sort key with its Python type: an int, a float (an infinity), a str or
\* a tuple of ints
SortValue(kind, num, items) == [kind |-> kind, num |-> num, items |-> items]

\* lines 2032-2053: the key of one ORDER BY item
KeyOf(direction, value) ==
    IF direction = "DESC"
    THEN IF value = None THEN SortValue("float", Infinity, <<>>)
         ELSE IF value \in StrVals THEN SortValue("tuple", 0, Negated(Text(value)))
         ELSE SortValue("int", 0 - value, <<>>)
    ELSE IF value = None THEN SortValue("float", 0 - Infinity, <<>>)
         ELSE IF value \in StrVals THEN SortValue("str", 0, Text(value))
         ELSE SortValue("int", value, <<>>)

SortKey(w, item, record) == KeyOf(item.direction, OrderValue(w, item.column, record))

\* Python's < on two strings or on two tuples of ints
RECURSIVE SeqLess(_, _)
SeqLess(a, b) ==
    IF a = <<>> THEN b # <<>>
    ELSE IF b = <<>> THEN FALSE
    ELSE IF Head(a) # Head(b) THEN Head(a) < Head(b)
    ELSE SeqLess(Tail(a), Tail(b))

\* Python's < is defined between two numbers, two strings or two tuples
ItemComparable(ka, kb) == ka.kind = kb.kind \/ {ka.kind, kb.kind} \subseteq {"int", "float"}

ItemLess(ka, kb) ==
    IF ka.kind \in {"str", "tuple"} THEN SeqLess(ka.items, kb.items) ELSE ka.num < kb.num

\* tuple comparison of the sort keys: the first items that differ decide
RECURSIVE KeyLess(_, _, _, _)
KeyLess(w, order_by, a, b) ==
    IF order_by = <<>> THEN FALSE
    ELSE IF SortKey(w, Head(order_by), a) # SortKey(w, Head(order_by), b)
         THEN ItemLess(SortKey(w, Head(order_by), a), SortKey(w, Head(order_by), b))
         ELSE KeyLess(w, Tail(order_by), a, b)

\* the comparison of the two sort keys raises no TypeError
RECURSIVE KeysComparable(_, _, _, _)
KeysComparable(w, order_by, a, b) ==
    IF order_by = <<>> THEN TRUE
    ELSE IF SortKey(w, Head(order_by), a) # SortKey(w, Head(order_by), b)
         THEN ItemComparable(SortKey(w, Head(order_by), a), SortKey(w, Head(order_by), b))
         ELSE KeysComparable(w, Tail(order_by), a, b)

\* sorted raises when it compares two keys that cannot be compared; the
\* records whose keys agree up to an item are ordered among themselves by
\* comparisons at that item, so two of them with keys of different types
\* there are compared, directly or through a third
OrderRaises(w, order_by, records) ==
    \E i \in 1..Len(records), j \in 1..Len(records) :
        ~KeysComparable(w, order_by, records[i][2], records[j][2])

\* Python's sorted: stable
RECURSIVE Sorted(_, _, _)
Sorted(w, order_by, records) ==
    IF records = <<>> THEN <<>>
    ELSE LET rest == Sorted(w, order_by, Tail(records))
             x == Head(records)
             before == {k \in 0..Len(rest) :
                          \A j \in 1..k : KeyLess(w, order_by, rest[j][2], x[2])}
             k == Max(before)
         IN SubSeq(rest, 1, k) \o <<x>> \o SubSeq(rest, k + 1, Len(rest))

\* lines 1979-2060; execute turns the TypeError into a DBMSError
_execute_order_by(w, order_by, records) ==
    IF order_by = <<>> THEN RowsOf(w, records)
    ELSE IF OrderRaises(w, order_by, records) THEN NoRows("DBMSError", w)
    ELSE RowsOf(w, Sorted(w, order_by, records))

\* lines 970-983
_apply_limit_offset(records, limit, offset) ==
    LET skipped == IF offset > 0 THEN SubSeq(records, offset + 1, Len(records)) ELSE records
    IN IF limit # 0
       THEN SubSeq(skipped, 1, IF limit < Len(skipped) THEN limit ELSE Len(skipped))
       ELSE skipped

\* lines 957-964
LimitRows(q, joined) ==
    CASE q.limit.type = "none" -> joined
      [] q.limit.type = "number" -> _apply_limit_offset(joined, q.limit.limit, 0)
      [] q.limit.type = "dict" -> _apply_limit_offset(joined, q.limit.limit, q.limit.offset)

\* str(value), and "NULL" for None
Digits == <<"0", "1", "2", "3", "4", "5", "6", "7", "8", "9">>

RECURSIVE Str(_)
Str(value) ==
    IF value = None THEN "NULL"
    ELSE IF value = 101 THEN "John Doe"
    ELSE IF value = 102 THEN "Jane Smith"
    ELSE IF value = 103 THEN "John"
    ELSE IF value < 10 THEN Digits[value + 1]
    ELSE Str(value \div 10) \o Digits[(value % 10) + 1]

\* lines 2590-2673: the columns are the keys of the first record that do not
\* start with "__"; a row is kept as the dict column -> text
Internal == {"__id__", "__deleted__"}

_format_result(records) ==
    IF records = <<>> THEN [columns |-> {"No Results"}, rows |-> <<>>]
    ELSE LET cols == (DOMAIN records[1][2]) \ Internal
         IN [columns |-> cols,
             rows |-> [i \in 1..Len(records) |-> [c \in cols |-> Str(Get(records[i][2], c))]]]

(***************************************************************************)
(* Executor: JOIN.  A join clause as the parser builds it, with the keys   *)
(* the optimizer adds (method, outer_column, inner_column, swapped) left   *)
(* empty.  Two or more JOIN clauses arrive as a list.                      *)
(***************************************************************************)
\* Python's None where a join method is expected (dict.get on the join)
NoMethod == ""

JoinCondition(lt, lc, rt, rc) ==
    [left_table |-> lt, left_column |-> lc, right_table |-> rt, right_column |-> rc]

Join(t, a, cond) ==
    [type |-> "join", table |-> t, alias |-> a, condition |-> cond, method |-> NoMethod,
     outer_column |-> NoColumn, inner_column |-> NoColumn, swapped |-> FALSE]

JoinList(js) == [type |-> "list", joins |-> js]

RECURSIVE Concat(_)
Concat(seqs) == IF seqs = <<>> THEN <<>> ELSE Head(seqs) \o Concat(Tail(seqs))

\* lines 874-885
RECURSIVE only_for(_, _)
only_for(cond, alias) ==
    CASE cond.type = "none" -> FALSE
      [] cond.type = "and" -> only_for(cond.left, alias) /\ only_for(cond.right, alias)
      [] cond.type = "or" -> FALSE
      [] OTHER -> StartsWith(cond.left, alias)

\* lines 888-903: <<left_only, right_only, join_only>>
RECURSIVE split(_, _, _)
split(cond, left_alias, right_alias) ==
    CASE cond.type = "none" -> <<NoWhere, NoWhere, NoWhere>>
      [] cond.type = "and" ->
            LET s1 == split(cond.left, left_alias, right_alias)
                s2 == split(cond.right, left_alias, right_alias)
                both(i) == IF s1[i] # NoWhere \/ s2[i] # NoWhere THEN And(s1[i], s2[i])
                           ELSE NoWhere
            IN <<both(1), both(2), both(3)>>
      [] OTHER ->
            IF only_for(cond, left_alias) THEN <<cond, NoWhere, NoWhere>>
            ELSE IF only_for(cond, right_alias) THEN <<NoWhere, cond, NoWhere>>
            ELSE <<NoWhere, NoWhere, cond>>

\* lines 1252-1313: the aliases _execute_join gathers, starting from none
JoinAliases(table, join_info) ==
    LET a1 == IF table.alias # NoAlias THEN Put(EmptyDict, table.alias, table.name)
              ELSE EmptyDict
        a2 == IF join_info.alias # NoAlias THEN Put(a1, join_info.alias, join_info.table)
              ELSE a1
        left_table_ref == join_info.condition.left_table
        right_table_ref == join_info.condition.right_table
        a3 == IF left_table_ref \notin DOMAIN a2 THEN Put(a2, left_table_ref, table.name)
              ELSE a2
    IN IF right_table_ref \notin DOMAIN a3 THEN Put(a3, right_table_ref, join_info.table)
       ELSE a3

\* lines 1373-1384: the left records under the alias of the left table
AliasedRecord(alias, record) ==
    [key \in {k \in DOMAIN record : k \in Internal}
             \cup {Dot(alias, k) : k \in DOMAIN record \ Internal} |->
        IF key \in Internal THEN record[key] ELSE record[SplitDot(key)[2]]]

\* lines 1652-1671: left keys first, a plain key under the name of the left
\* table, then the right keys under the alias of the right table
JoinedRecord(left_prefix, right_prefix, left_record, right_record) ==
    LET left_keys == {IF HasDot(k) THEN k ELSE Dot(left_prefix, k) :
                        k \in DOMAIN left_record \ Internal}
        right_keys == {Dot(right_prefix, k) : k \in DOMAIN right_record \ Internal}
    IN [key \in left_keys \cup right_keys |->
          IF key \in right_keys THEN right_record[SplitDot(key)[2]]
          ELSE IF key \in DOMAIN left_record THEN left_record[key]
          ELSE left_record[SplitDot(key)[2]]]

\* lines 1569-1673
NestedLoopJoin(w, first, left_table, join_info, left_records) ==
    LET right_table == join_info.table
        right_table_alias == IF join_info.alias # NoAlias THEN join_info.alias ELSE right_table
        left_column == join_info.condition.left_column
        right_column == join_info.condition.right_column
    IN IF right_table \notin DOMAIN w.table_files THEN NoRows("StorageError", w)
       ELSE LET right_records == w.table_files[right_table]
                left_value(record) ==
                    IF \E key \in DOMAIN record : EndsWith(key, left_column)
                    THEN record[FirstKeyEndingWith(record, first, left_column)]
                    ELSE Get(record, left_column)
                matches(left_record) ==
                    SelectSeq(right_records,
                              LAMBDA r : /\ ~IsDeleted(r)
                                         /\ left_value(left_record) = Get(r, right_column))
                joined(left_record) ==
                    [j \in 1..Len(matches(left_record)) |->
                       <<None, JoinedRecord(left_table, right_table_alias, left_record,
                                            matches(left_record)[j])>>]
            IN RowsOf(w, Concat([i \in 1..Len(left_records) |-> joined(left_records[i][2])]))

\* lines 1741-1794: the outer table is read again from its file and the
\* inner records are found through the index of the inner column
IndexNestedLoopJoin(w, left_table, join_info) ==
    LET right_table == join_info.table
        right_table_alias == IF join_info.alias # NoAlias THEN join_info.alias ELSE right_table
        outer_column == IF join_info.outer_column # NoColumn THEN join_info.outer_column
                        ELSE join_info.condition.left_column
        inner_column == IF join_info.inner_column # NoColumn THEN join_info.inner_column
                        ELSE join_info.condition.right_column
    IN IF left_table \notin DOMAIN w.table_files \/ right_table \notin DOMAIN w.table_files
       THEN NoRows("StorageError", w)
       ELSE LET outer_records == w.table_files[left_table]
                inner_records_all == w.table_files[right_table]
                probing == SelectSeq(outer_records,
                                     LAMBDA r : ~IsDeleted(r) /\ Get(r, outer_column) # None)
            IN IF probing # <<>> /\ <<right_table, inner_column>> \notin DOMAIN w.index_files
               THEN NoRows("IndexError", w)
               ELSE LET inner_ids(outer_record) ==
                            SelectSeq(lookup(w.index_files[<<right_table, inner_column>>],
                                             outer_record[outer_column]),
                                      LAMBDA id : /\ id + 1 \in 1..Len(inner_records_all)
                                                  /\ ~IsDeleted(inner_records_all[id + 1]))
                        joined(outer_record) ==
                            [j \in 1..Len(inner_ids(outer_record)) |->
                               <<None, JoinedRecord(left_table, right_table_alias,
                                     outer_record,
                                     inner_records_all[inner_ids(outer_record)[j] + 1])>>]
                    IN RowsOf(w, Concat([i \in 1..Len(probing) |-> joined(probing[i])]))

\* sort-merge, index-nested-loop and hash-join: every key of either record
\* under the prefix of its side, the second record written last
PrefixedRecord(first_prefix, second_prefix, first_record, second_record) ==
    LET first_keys == {Dot(first_prefix, k) : k \in DOMAIN first_record \ Internal}
        second_keys == {Dot(second_prefix, k) : k \in DOMAIN second_record \ Internal}
    IN [key \in first_keys \cup second_keys |->
          IF key \in second_keys
          THEN second_record[CHOOSE k \in DOMAIN second_record \ Internal :
                                Dot(second_prefix, k) = key]
          ELSE first_record[CHOOSE k \in DOMAIN first_record \ Internal :
                               Dot(first_prefix, k) = key]]

\* Python's < raises TypeError on None, and on a string and a number
Unordered(a, b) == a = None \/ b = None \/ (a \in StrVals) # (b \in StrVals)

KeyBelow(a, b) == IF a \in StrVals /\ b \in StrVals THEN SeqLess(Text(a), Text(b)) ELSE a < b

\* sorted: every key is compared with another one
SortRaises(keys) ==
    \E i, j \in 1..Len(keys) : i # j /\ Unordered(keys[i], keys[j])

\* the values of a set in ascending order
RECURSIVE Ascending(_)
Ascending(values) ==
    IF values = {} THEN <<>>
    ELSE LET least == CHOOSE v \in values : \A u \in values \ {v} : KeyBelow(v, u)
         IN <<least>> \o Ascending(values \ {least})

\* the rows of one run of equal keys: every left record of the run with
\* every right record of the run
MergedRun(left_prefix, right_prefix, left_run, right_run) ==
    Concat([i \in 1..Len(left_run) |->
              [j \in 1..Len(right_run) |->
                 <<None, PrefixedRecord(left_prefix, right_prefix, left_run[i], right_run[j])>>]])

\* the merge of the sorted inputs, run by run
Merged(left_table, right_table_alias, lefts, rights, left_key(_), right_key(_)) ==
    LET common == Ascending({left_key(lefts[i]) : i \in 1..Len(lefts)}
                            \cap {right_key(rights[j]) : j \in 1..Len(rights)})
    IN Concat([n \in 1..Len(common) |->
                 MergedRun(left_table, right_table_alias,
                           SelectSeq(lefts, LAMBDA r : left_key(r) = common[n]),
                           SelectSeq(rights, LAMBDA r : right_key(r) = common[n]))])

\* lines 1675-1739
SortMergeJoin(w, left_table, join_info, left_records) ==
    LET right_table == join_info.table
        right_table_alias == IF join_info.alias # NoAlias THEN join_info.alias ELSE right_table
        left_column == join_info.condition.left_column
        right_column == join_info.condition.right_column
        get_left_key(record) ==
            IF Dot(left_table, left_column) \in DOMAIN record
            THEN record[Dot(left_table, left_column)]
            ELSE Get(record, left_column)
        get_right_key(record) == Get(record, right_column)
        lefts == [i \in 1..Len(left_records) |-> left_records[i][2]]
    IN IF SortRaises([i \in 1..Len(lefts) |-> get_left_key(lefts[i])])
       THEN NoRows("TypeError", w)
       ELSE IF right_table \notin DOMAIN w.table_files THEN NoRows("StorageError", w)
       ELSE IF SortRaises([j \in 1..Len(active_records(w.table_files[right_table])) |->
                             get_right_key(active_records(w.table_files[right_table])[j])])
       THEN NoRows("TypeError", w)
       ELSE IF /\ lefts # <<>>
               /\ active_records(w.table_files[right_table]) # <<>>
               /\ \E i \in 1..Len(lefts) :
                     \E j \in 1..Len(active_records(w.table_files[right_table])) :
                        Unordered(get_left_key(lefts[i]),
                                  get_right_key(active_records(w.table_files[right_table])[j]))
       THEN NoRows("TypeError", w)
       ELSE RowsOf(w, Merged(left_table, right_table_alias, lefts,
                             active_records(w.table_files[right_table]),
                             get_left_key, get_right_key))

\* the probe phase: every probe record with the build records of its key
Probed(build_rows, build_col, build_alias, probe_rows, probe_col, probe_alias) ==
    LET matches(rec) ==
            SelectSeq(build_rows, LAMBDA b : /\ Get(b, build_col) # None
                                             /\ Get(b, build_col) = Get(rec, probe_col))
    IN Concat([i \in 1..Len(probe_rows) |->
                 [j \in 1..Len(matches(probe_rows[i])) |->
                    <<None, PrefixedRecord(build_alias, probe_alias,
                                           matches(probe_rows[i])[j], probe_rows[i])>>]])

\* lines 1795-1849: the hash table is built on the smaller input
HashJoin(w, left_table, join_info, left_records) ==
    LET inner_table == join_info.table
        outer_column == IF join_info.outer_column # NoColumn THEN join_info.outer_column
                        ELSE join_info.condition.left_column
        inner_column == IF join_info.inner_column # NoColumn THEN join_info.inner_column
                        ELSE join_info.condition.right_column
        lefts == [i \in 1..Len(left_records) |-> left_records[i][2]]
    IN IF inner_table \notin DOMAIN w.table_files THEN NoRows("StorageError", w)
       ELSE IF Len(active_records(w.table_files[inner_table])) <= Len(lefts)
       THEN RowsOf(w, Probed(active_records(w.table_files[inner_table]), inner_column, inner_table,
                             lefts, outer_column, left_table))
       ELSE RowsOf(w, Probed(lefts, outer_column, left_table,
                             active_records(w.table_files[inner_table]), inner_column, inner_table))

\* lines 1437-1849.  The table names of the model contain one another
\* nowhere, so lines 1468-1482 add no alias that _execute_join has not
\* added.
_execute_single_join(w, first, left_table, join_info, left_records) ==
    CASE join_info.method \in {NoMethod, "nested-loop"} ->
            NestedLoopJoin(w, first, left_table, join_info, left_records)
      [] join_info.method = "sort-merge" ->
            SortMergeJoin(w, left_table, join_info, left_records)
      [] join_info.method = "index-nested-loop" ->
            IndexNestedLoopJoin(w, left_table, join_info)
      [] join_info.method = "hash-join" ->
            HashJoin(w, left_table, join_info, left_records)
      [] OTHER -> RowsOf(w, <<>>)

\* lines 1372-1384
Aliased(alias, records) ==
    IF alias = NoAlias THEN records
    ELSE [i \in 1..Len(records) |-> <<records[i][1], AliasedRecord(alias, records[i][2])>>]

\* lines 1239-1403, for the one join _execute_select lets through
JoinWith(w, q) ==
    _execute_single_join(w, IF q.table.alias = NoAlias THEN q.table.name ELSE q.table.alias,
                         q.table.name, q.join,
                         Aliased(q.table.alias, _execute_where(w, q.table.name, NoWhere)))

_execute_join(w, q) ==
    JoinWith([w EXCEPT !.table_aliases = JoinAliases(q.table, q.join)], q)

\* lines 918-923: the rest of the WHERE clause, on the joined rows
RemainingWhere(joined, first, join_where) ==
    IF ~joined.ok \/ join_where = NoWhere THEN joined
    ELSE RowsOf(joined.w,
                SelectSeq(joined.rows,
                          LAMBDA row : _evaluate_condition(joined.w, first, join_where, row[2])))

\* lines 848-923: the rows before aggregation
FilterAndJoin(w, q) ==
    IF q.join.type = "none"
    THEN LET w1 == RememberAlias(w, q.table)
         IN IF q.table.name \notin DOMAIN w1.table_files THEN NoRows("StorageError", w1)
            ELSE RowsOf(w1, _execute_where(w1, q.table.name, q.where))
    ELSE IF q.join.type = "list" THEN NoRows("DBMSError", w)
    ELSE LET right_tbl == q.join.table
             left_alias == IF q.table.alias # NoAlias THEN q.table.alias ELSE q.table.name
             right_alias == IF q.join.alias # NoAlias THEN q.join.alias ELSE right_tbl
             w1 == RememberAlias(w, q.table)
         IN IF q.table.name \notin DOMAIN w1.table_files \/ right_tbl \notin DOMAIN w1.table_files
            THEN NoRows("StorageError", w1)
            ELSE RemainingWhere(_execute_join(w1, q), left_alias,
                                split(q.where, left_alias, right_alias)[3])

\* what SELECT hands back: the formatted result and the records it was
\* formatted from, or the error raised
Selected(w, records) ==
    [ok |-> TRUE, error |-> "", w |-> w, count |-> Len(records), records |-> records,
     result |-> _format_result(records)]
NotSelected(e, w) ==
    [ok |-> FALSE, error |-> e, w |-> w, count |-> 0, records |-> <<>>,
     result |-> _format_result(<<>>)]

\* lines 925-967: aggregation, projection, ORDER BY and LIMIT
AfterOrder(q, ordered) ==
    IF ~ordered.ok THEN NotSelected(ordered.error, ordered.w)
    ELSE Selected(ordered.w, LimitRows(q, ordered.rows))

AfterJoin(q, joined) ==
    IF ~joined.ok THEN NotSelected(joined.error, joined.w)
    ELSE AfterOrder(q, _execute_order_by(joined.w, q.order_by,
                           _execute_projection(q, Aggregate(q, joined.rows))))

\* lines 848-967
_execute_select(w, q) == AfterJoin(q, FilterAndJoin(w, q))

(***************************************************************************)
(* QueryOptimizer (query/optimizer.py).  A selectivity is the fraction     *)
(* <<numerator, denominator>>.                                             *)
(***************************************************************************)
Times(a, b) == <<a[1] * b[1], a[2] * b[2]>>
Less(a, b) == a[1] * b[2] < b[1] * a[2]

RangeOperators == {"<", ">", "<=", ">="}
UnequalOperators == {"!=", "<>"}

\* lines 257-302; get_key_count reads no index for a table given with an
\* alias, and the estimate is then the default one
_estimate_selectivity(w, table, condition) ==
    LET operator == condition.operator
        indexed == /\ index_exists(w, table.name, condition.left)
                   /\ table.alias = NoAlias
                   /\ <<table.name, condition.left>> \in DOMAIN w.index_files
                   /\ operator \in {"="} \cup RangeOperators \cup UnequalOperators
    IN IF indexed
       THEN LET total_keys == Cardinality(DOMAIN w.index_files[<<table.name, condition.left>>])
                keys == IF total_keys > 1 THEN total_keys ELSE 1
            IN IF operator = "=" THEN <<1, keys>>
               ELSE IF operator \in RangeOperators THEN <<1, 2>>
               ELSE <<keys - 1, keys>>
       ELSE IF operator = "=" THEN <<1, 10>>
       ELSE IF operator \in RangeOperators THEN <<3, 10>>
       ELSE IF operator \in UnequalOperators THEN <<9, 10>>
       ELSE <<1, 2>>

\* lines 96-151: the condition with the operands of AND put in the order of
\* their selectivity, and its selectivity
RECURSIVE _optimize_conditions(_, _, _)
_optimize_conditions(w, condition, table) ==
    CASE condition.type = "comparison" ->
            [condition |-> condition,
             selectivity |-> _estimate_selectivity(w, table, condition)]
      [] condition.type = "and" ->
            LET left == _optimize_conditions(w, condition.left, table)
                right == _optimize_conditions(w, condition.right, table)
            IN [condition |-> IF Less(right.selectivity, left.selectivity)
                              THEN And(right.condition, left.condition)
                              ELSE And(left.condition, right.condition),
                selectivity |-> Times(left.selectivity, right.selectivity)]
      [] condition.type = "or" ->
            LET left == _optimize_conditions(w, condition.left, table)
                right == _optimize_conditions(w, condition.right, table)
                l == left.selectivity
                r == right.selectivity
            IN [condition |-> Or(left.condition, right.condition),
                selectivity |-> <<(l[1] * r[2] + r[1] * l[2]) - l[1] * r[1], l[2] * r[2]>>]
      [] OTHER -> [condition |-> condition, selectivity |-> <<1, 2>>]

\* SchemaManager.get_record_count
get_record_count(w, table_name) ==
    IF table_exists(w, table_name) THEN w.tables[table_name].record_count ELSE 0

\* line 178: the product of the sizes above which a hash join is chosen
HashJoinThreshold == 10000000

Strategy(method, outer, inner, outer_column, inner_column, swapped) ==
    [method |-> method, outer |-> outer, inner |-> inner, outer_column |-> outer_column,
     inner_column |-> inner_column, swapped |-> swapped]

\* Python's None where a strategy is expected: the function returned nothing
NoStrategy == Strategy(NoMethod, "", "", NoColumn, NoColumn, FALSE)

\* a choice that keeps the written orientation whatever the sizes
join_method_never_swapped(left_table, right_table, left_key, right_key, left_size, right_size, left_indexed, right_indexed) ==
    IF left_size * right_size > HashJoinThreshold
    THEN Strategy("hash-join", left_table, right_table, left_key, right_key, FALSE)
    ELSE IF right_indexed \/ left_indexed
    THEN Strategy("index-nested-loop", left_table, right_table, left_key, right_key, FALSE)
    ELSE NoStrategy

\* lines 153-254, from the sizes and the indexes it reads in the catalog
JoinMethod(left_table, right_table, left_key, right_key, left_size, right_size, left_indexed, right_indexed) ==
    IF left_size * right_size > HashJoinThreshold
    THEN IF left_size <= right_size
         THEN Strategy("hash-join", left_table, right_table, left_key, right_key, FALSE)
         ELSE Strategy("hash-join", right_table, left_table, right_key, left_key, TRUE)
    ELSE IF right_indexed /\ left_size <= right_size
    THEN Strategy("index-nested-loop", left_table, right_table, left_key, right_key, FALSE)
    ELSE IF left_indexed /\ right_size < left_size
    THEN Strategy("index-nested-loop", right_table, left_table, right_key, left_key, TRUE)
    ELSE NoStrategy

\* lines 153-254
_select_join_method(w, left_table, right_table, join_condition) ==
    JoinMethod(left_table, right_table,
               join_condition.left_column, join_condition.right_column,
               get_record_count(w, left_table), get_record_count(w, right_table),
               index_exists(w, left_table, join_condition.left_column),
               index_exists(w, right_table, join_condition.right_column))

\* what optimize hands back: the optimized query, or the error it raised
Optimized(q) == [ok |-> TRUE, error |-> "", query |-> q]
NotOptimized(e, q) == [ok |-> FALSE, error |-> e, query |-> q]

\* lines 26-94: of two or more joins the first is kept; the FROM table and
\* the joined table become the outer and the inner table of the strategy,
\* as plain names
optimize(w, parsed_query) ==
    LET where == IF parsed_query.where.type = "none" THEN parsed_query.where
                 ELSE _optimize_conditions(w, parsed_query.where,
                                           parsed_query.table).condition
        with_where == [parsed_query EXCEPT !.where = where]
    IN IF parsed_query.join.type = "none" THEN Optimized(with_where)
       ELSE LET join == IF parsed_query.join.type = "list" THEN parsed_query.join.joins[1]
                        ELSE parsed_query.join
                strategy == _select_join_method(w, parsed_query.table.name, join.table,
                                                join.condition)
                cond == IF strategy.swapped
                        THEN JoinCondition(strategy.outer, strategy.outer_column,
                                           strategy.inner, strategy.inner_column)
                        ELSE join.condition
            IN IF strategy = NoStrategy THEN NotOptimized("TypeError", with_where)
               ELSE Optimized([with_where EXCEPT
                       !.table = TableRef(strategy.outer, NoAlias),
                       !.join = [join EXCEPT !.method = strategy.method,
                                             !.outer_column = strategy.outer_column,
                                             !.inner_column = strategy.inner_column,
                                             !.table = strategy.inner,
                                             !.condition = cond,
                                             !.swapped = strategy.swapped]])

\* main.py lines 76-85: a SELECT goes through the optimizer, then through
\* the executor
ExecuteOptimized(w, optimized) ==
    IF ~optimized.ok THEN NotSelected(optimized.error, w)
    ELSE _execute_select(w, optimized.query)

optimize_and_execute(w, parsed_query) == ExecuteOptimized(w, optimize(w, parsed_query))

(***************************************************************************)
(* The outcome of a statement.                                             *)
(***************************************************************************)
Outcome(q, ok, error, count) ==
    [type |-> q.type, table_name |-> q.table_name, ok |-> ok, error |-> error, count |-> count]

(***************************************************************************)
(* The statements the model submits.                                       *)
(***************************************************************************)
IntLits == 0..MaxLit

NoForeignKeys == EmptyDict
ToCourses(c) == [k \in {"cid"} |-> [table |-> "courses", column |-> c]]

CreateTableQuery(t, cols, pk, fks) ==
    [type |-> "CREATE_TABLE", table_name |-> t, columns |-> cols, primary_key |-> pk,
     foreign_keys |-> fks]

\* CREATE TABLE students (id INTEGER PRIMARY KEY)
\* CREATE TABLE courses (id INTEGER PRIMARY KEY, title STRING)
\* CREATE TABLE courses (title STRING, id INTEGER PRIMARY KEY AUTO_INCREMENT)
\* CREATE TABLE enroll (cid INTEGER, FOREIGN KEY (cid) REFERENCES courses(id))
\* and two statements create_table refuses: a foreign key to a column that is
\* not a primary key, and AUTO_INCREMENT on a STRING column
CreateTableQueries ==
    { CreateTableQuery("students", <<Col("id", "INTEGER", TRUE, FALSE)>>, "id", NoForeignKeys),
      CreateTableQuery("courses",
          <<Col("id", "INTEGER", TRUE, FALSE), Col("title", "STRING", FALSE, FALSE)>>,
          "id", NoForeignKeys),
      CreateTableQuery("courses",
          <<Col("title", "STRING", FALSE, FALSE), Col("id", "INTEGER", TRUE, TRUE)>>,
          "id", NoForeignKeys),
      CreateTableQuery("enroll",
          <<Col("cid", "INTEGER", FALSE, FALSE)>>, NoColumn, ToCourses("id")),
      CreateTableQuery("enroll",
          <<Col("cid", "INTEGER", FALSE, FALSE)>>, NoColumn, ToCourses("title")),
      CreateTableQuery("enroll",
          <<Col("cid", "STRING", FALSE, TRUE)>>, NoColumn, NoForeignKeys) }

\* literals of the column's type
RightLits(col) == IF col.type = "INTEGER" THEN {IntLit(n) : n \in IntLits} ELSE {StrLit(101)}
WrongLit(col) == IF col.type = "INTEGER" THEN StrLit(101) ELSE IntLit(1)

RECURSIVE Rows(_)
Rows(cols) ==
    IF cols = <<>> THEN {<<>>}
    ELSE {<<v>> \o rest : v \in RightLits(Head(cols)), rest \in Rows(Tail(cols))}

Without(s, i) == [k \in 1..(Len(s) - 1) |-> IF k < i THEN s[k] ELSE s[k + 1]]
Names(cols) == [i \in 1..Len(cols) |-> cols[i].name]

InsertQuery(t, cs, vs) == [type |-> "INSERT", table_name |-> t, columns |-> cs, values |-> vs]

\* full rows, rows naming all columns but one, a row with one value of the
\* wrong type and a row with one value too few
InsertQueries(t) ==
    IF t \notin DOMAIN columns THEN {InsertQuery(t, <<>>, <<IntLit(1)>>)}
    ELSE LET cols == columns[t]
         IN {InsertQuery(t, <<>>, vs) : vs \in Rows(cols)}
            \cup UNION {{InsertQuery(t, Names(Without(cols, i)), vs) :
                           vs \in Rows(Without(cols, i))} : i \in 1..Len(cols)}
            \cup {InsertQuery(t, <<>>, [vs EXCEPT ![1] = WrongLit(cols[1])]) :
                    vs \in {CHOOSE r \in Rows(cols) : TRUE}}
            \cup {InsertQuery(t, <<>>, Tail(vs)) : vs \in {CHOOSE r \in Rows(cols) : TRUE}}

SetItem(c, v) == [column |-> c, value |-> v]

Conditions(t) ==
    {NoWhere} \cup
    IF t \notin DOMAIN columns THEN {}
    ELSE {Comparison(columns[t][i].name, "=", IntLit(n)) :
            i \in {j \in 1..Len(columns[t]) : columns[t][j].type = "INTEGER"},
            n \in 1..MaxLit}

\* one SET item of the column's type, or two: any column, then a column
\* the table does not have or another column of the table
SetLists(t) ==
    IF t \notin DOMAIN columns THEN {<<SetItem("id", IntLit(1))>>}
    ELSE LET cols == columns[t]
             one == UNION {{SetItem(cols[i].name, v) : v \in RightLits(cols[i])} :
                             i \in 1..Len(cols)}
         IN {<<a>> : a \in one}
            \cup {<<a, SetItem("nosuch", IntLit(1))>> : a \in one}
            \cup {p \in {<<a, b>> : a \in one, b \in one} : p[1].column # p[2].column}

UpdateQuery(t, items, cond) ==
    [type |-> "UPDATE", table_name |-> t, set_items |-> items, where |-> cond]
DeleteQuery(t, cond) == [type |-> "DELETE", table_name |-> t, where |-> cond]
DropTableQuery(t) == [type |-> "DROP_TABLE", table_name |-> t]
CreateIndexQuery(t, c) == [type |-> "CREATE_INDEX", table_name |-> t, column_name |-> c]
DropIndexQuery(t, c) == [type |-> "DROP_INDEX", table_name |-> t, column_name |-> c]

\* the FROM tables of the SELECT statements, with and without an alias
FromRefs == {TableRef("courses", NoAlias), TableRef("courses", "c"),
             TableRef("enroll", NoAlias), TableRef("enroll", "e")}

Operators == {"=", "!=", "<>", "<", "<=", ">", ">="}

\* the ways a statement can name a column of its FROM table
QualifiedNames(ref, column) ==
    {column, Dot(ref.name, column)}
    \cup IF ref.alias # NoAlias THEN {Dot(ref.alias, column)} ELSE {}

\* column <operator> literal, for every column of the table, every way of
\* naming it and every operator
WhereComparisons(ref) ==
    IF ref.name \notin DOMAIN columns THEN {}
    ELSE UNION {{Comparison(name, op, lit) :
                   name \in QualifiedNames(ref, columns[ref.name][i].name),
                   op \in Operators, lit \in RightLits(columns[ref.name][i])} :
                i \in 1..Len(columns[ref.name])}

CountAll(alias) == Columns(<<Aggregation("COUNT", "*", alias)>>)

PlainSelect(ref, where, order_by, limit) ==
    SelectQuery(All, ref, NoJoin, where, order_by, NoWhere, limit)

\* FROM enroll JOIN courses ON enroll.cid = courses.id
\* FROM courses JOIN enroll ON courses.id = enroll.cid
\* FROM enroll e JOIN courses c ON e.cid = c.id
JoinClauses ==
    { <<TableRef("enroll", NoAlias),
        Join("courses", NoAlias, JoinCondition("enroll", "cid", "courses", "id"))>>,
      <<TableRef("courses", NoAlias),
        Join("enroll", NoAlias, JoinCondition("courses", "id", "enroll", "cid"))>>,
      <<TableRef("enroll", "e"),
        Join("courses", "c", JoinCondition("e", "cid", "c", "id"))>> }

\* conditions on the left table, on the right table and on both, the
\* tables named as the FROM and JOIN clauses name them
JoinWheres(from, join) ==
    LET left == join.condition.left_table
        right == join.condition.right_table
        left_column == Dot(left, join.condition.left_column)
        right_column == Dot(right, join.condition.right_column)
        one == {Comparison(name, op, IntLit(n)) :
                  name \in {left_column, right_column}, op \in {"=", "!="}, n \in IntLits}
    IN {NoWhere} \cup one
       \cup {Comparison(left_column, op, ColumnRef(right_column)) : op \in {"=", "!="}}
       \cup {And(Comparison(left_column, "=", IntLit(n)),
                 Comparison(right_column, "=", IntLit(k))) : n \in IntLits, k \in IntLits}

JoinSelect(from, join, where) == SelectQuery(All, from, join, where, NoOrder, NoWhere, NoLimit)

JoinQueries ==
    UNION {{JoinSelect(fj[1], fj[2], where) : where \in JoinWheres(fj[1], fj[2])} :
             fj \in JoinClauses}

\* FROM enroll JOIN courses ON enroll.cid = courses.id
\*             JOIN courses c ON enroll.cid = c.id
TwoJoins ==
    JoinList(<<Join("courses", NoAlias, JoinCondition("enroll", "cid", "courses", "id")),
               Join("courses", "c", JoinCondition("enroll", "cid", "c", "id"))>>)

TwoJoinQueries == {JoinSelect(TableRef("enroll", NoAlias), TwoJoins, NoWhere)}

Limits == {Limit(l) : l \in 0..MaxRecords}
          \cup {LimitOffset(l, offset) : l \in 0..MaxRecords, offset \in 0..(MaxRecords + 1)}

Orders(ref) ==
    {NoOrder} \cup
    IF ref.name \notin DOMAIN columns THEN {}
    ELSE {<<OrderItem(columns[ref.name][i].name, direction)>> :
            i \in 1..Len(columns[ref.name]), direction \in {"ASC", "DESC"}}

\* SELECT * FROM <table> [ORDER BY <column>] LIMIT <limit> [OFFSET <offset>]
LimitQueries ==
    UNION {{PlainSelect(ref, NoWhere, order_by, limit) :
              order_by \in Orders(ref), limit \in Limits} :
           ref \in {r \in FromRefs : r.alias = NoAlias}}

\* SELECT * FROM <table> [<alias>] [WHERE <column> <operator> <literal>]
WhereQueries ==
    UNION {{PlainSelect(ref, where, NoOrder, NoLimit) :
              where \in {NoWhere} \cup WhereComparisons(ref)} : ref \in FromRefs}

\* SELECT COUNT(*) [AS n] FROM <table> [WHERE <column> = <literal>]
\*                         [HAVING n > <literal>]
CountQueries ==
    UNION {{SelectQuery(CountAll(alias), ref, NoJoin, where, NoOrder, having, NoLimit) :
              alias \in {NoAlias, "n"}, where \in Conditions(ref.name),
              having \in {NoWhere} \cup {Comparison("n", ">", IntLit(k)) : k \in IntLits}} :
           ref \in FromRefs}
    \cup {SelectQuery(CountAll(NoAlias), fj[1], fj[2], NoWhere, NoOrder, NoWhere, NoLimit) :
             fj \in JoinClauses}

\* the statements the runs submit: one of each shape, on every FROM table
SelectQueries ==
    {PlainSelect(ref, NoWhere, NoOrder, NoLimit) : ref \in FromRefs}
    \cup {PlainSelect(TableRef("courses", NoAlias), NoWhere,
                      <<OrderItem("id", "DESC")>>, LimitOffset(1, 1))}
    \cup {SelectQuery(CountAll(NoAlias), TableRef("enroll", NoAlias), NoJoin,
                      Comparison("cid", "=", IntLit(1)), NoOrder, NoWhere, NoLimit)}
    \cup {JoinSelect(fj[1], fj[2], NoWhere) : fj \in JoinClauses}
    \cup TwoJoinQueries

(***************************************************************************)
(* The state machine.                                                      *)
(***************************************************************************)
Init ==
    /\ tables = EmptyDict
    /\ columns = EmptyDict
    /\ indexes = EmptyDict
    /\ primary_keys = EmptyDict
    /\ foreign_keys = EmptyDict
    /\ table_files = EmptyDict
    /\ index_files = EmptyDict
    /\ table_aliases = EmptyDict
    /\ result = Outcome([type |-> "NONE", table_name |-> ""], TRUE, "", 0)
    /\ statements = 0

\* Executor.execute: the handler's world becomes the state
Execute(q, r) ==
    /\ statements < MaxStatements
    /\ statements' = statements + 1
    /\ tables' = r.w.tables
    /\ columns' = r.w.columns
    /\ indexes' = r.w.indexes
    /\ primary_keys' = r.w.primary_keys
    /\ foreign_keys' = r.w.foreign_keys
    /\ table_files' = r.w.table_files
    /\ index_files' = r.w.index_files
    /\ table_aliases' = r.w.table_aliases
    /\ result' = Outcome(q, r.ok, r.error, r.count)

CreateTable == \E q \in CreateTableQueries : Execute(q, _execute_create_table(World, q))

\* CREATE TABLE for any table but students, the name for which the handler
\* writes sample rows
CreatePlainTable == \E q \in {x \in CreateTableQueries : x.table_name # "students"} :
    Execute(q, _execute_create_table(World, q))

DropTable == \E t \in TableNames :
    Execute(DropTableQuery(t), _execute_drop_table(World, DropTableQuery(t)))

CreateIndex == \E t \in TableNames, c \in ColumnNames :
    Execute(CreateIndexQuery(t, c), _execute_create_index(World, CreateIndexQuery(t, c)))

DropIndex == \E t \in TableNames, c \in ColumnNames :
    Execute(DropIndexQuery(t, c), _execute_drop_index(World, DropIndexQuery(t, c)))

RECURSIVE Slots(_, _)
Slots(files, names) ==
    IF names = {} THEN 0
    ELSE LET t == CHOOSE n \in names : TRUE
         IN Len(files[t]) + Slots(files, names \ {t})

Insert == \E t \in TableNames :
    /\ Slots(table_files, DOMAIN table_files) < MaxRecords
    /\ \E q \in InsertQueries(t) : Execute(q, _execute_insert(World, q))

Update == \E t \in TableNames : \E items \in SetLists(t), cond \in Conditions(t) :
    Execute(UpdateQuery(t, items, cond), _execute_update(World, UpdateQuery(t, items, cond)))

Delete == \E t \in TableNames : \E cond \in Conditions(t) :
    Execute(DeleteQuery(t, cond), _execute_delete(World, DeleteQuery(t, cond)))

\* a SELECT handed to the executor as the parser built it
Select == \E q \in SelectQueries :
    Execute([type |-> "SELECT", table_name |-> q.table.name], _execute_select(World, q))

\* a SELECT handed to the optimizer and then to the executor
OptimizedSelect == \E q \in SelectQueries :
    Execute([type |-> "SELECT", table_name |-> q.table.name], optimize_and_execute(World, q))

Next ==
    \/ CreateTable
    \/ DropTable
    \/ CreateIndex
    \/ DropIndex
    \/ Insert
    \/ Update
    \/ Delete

Spec == Init /\ [][Next]_vars

\* The statements that fill the tables, and SELECT.  SELECT writes nothing
\* but the aliases the executor remembers, which no other handler reads for
\* the conditions of the model.
NextQuery ==
    \/ CreatePlainTable
    \/ CreateIndex
    \/ Insert
    \/ Delete
    \/ Select
    \/ OptimizedSelect

SpecQuery == Init /\ [][NextQuery]_vars

\* the runs in which no table is named students
NextPlain ==
    \/ CreatePlainTable
    \/ DropTable
    \/ CreateIndex
    \/ DropIndex
    \/ Insert
    \/ Update
    \/ Delete

SpecPlain == Init /\ [][NextPlain]_vars

(***************************************************************************)
(* Invariants of the stored data.                                          *)
(***************************************************************************)

\* C1: in every reachable state and for every table with a primary key, the
\* primary-key index is a bijection between the primary-key values of the
\* live records and their record ids: every live record is found under the
\* value it holds, alone, and every key of the index is the value of the one
\* live record it lists.
C1_PrimaryKeyIndexBijection ==
    \A t \in DOMAIN primary_keys :
        LET pk == primary_keys[t]
            records == table_files[t]
        IN /\ <<t, pk>> \in DOMAIN index_files
           /\ \A i \in LiveIds(records) :
                 /\ pk \in DOMAIN records[i]
                 /\ lookup(index_files[<<t, pk>>], records[i][pk]) = <<records[i]["__id__"]>>
           /\ \A key \in DOMAIN index_files[<<t, pk>>] :
                 \E i \in LiveIds(records) :
                     /\ Get(records[i], pk) = key
                     /\ index_files[<<t, pk>>][key] = <<records[i]["__id__"]>>

\* C2: in every reachable state every index lists exactly the (value, id)
\* pairs of its column over the live records of its table: each id an index
\* lists under a key is the id of a live record that holds that key (None
\* for a record without the column), no id is listed twice under a key, and
\* every live record that has the column is listed under its value.
C2_IndexListsLiveRecords ==
    \A k \in DOMAIN index_files :
        LET records == table_files[k[1]]
            index == index_files[k]
        IN /\ \A key \in DOMAIN index : \A n \in 1..Len(index[key]) :
                 /\ \E i \in LiveIds(records) :
                       /\ records[i]["__id__"] = index[key][n]
                       /\ Get(records[i], k[2]) = key
                 /\ \A m \in 1..Len(index[key]) : index[key][m] = index[key][n] => m = n
           /\ \A i \in LiveIds(records) :
                 k[2] \in DOMAIN records[i] =>
                     records[i]["__id__"] \in Range(lookup(index, records[i][k[2]]))

\* C3: in every reachable state, for every foreign key T.c -> U.d, the value
\* a live record of T holds in c is the value some live record of U holds in
\* d, unless the record of T has no value in c.
C3_ForeignKeysHaveReferents ==
    \A t \in DOMAIN foreign_keys : \A c \in DOMAIN foreign_keys[t] :
        LET ref == foreign_keys[t][c]
        IN \A i \in LiveIds(table_files[t]) :
               Get(table_files[t][i], c) # None =>
                   /\ ref.table \in DOMAIN table_files
                   /\ \E j \in LiveIds(table_files[ref.table]) :
                         Get(table_files[ref.table][j], ref.column) = Get(table_files[t][i], c)

\* C4: in every reachable state the catalog's record_count of a table is the
\* number of live records in the table's file.
C4_RecordCountIsLiveCount ==
    \A t \in DOMAIN tables :
        tables[t].record_count = Cardinality(LiveIds(table_files[t]))


(***************************************************************************)
(* Statements that must be refused.                                        *)
(***************************************************************************)

\* C5: an UPDATE that fails on a duplicate primary key or on a foreign key
\* without a referent leaves every record file and every index file as it
\* found them.
C5_FailedUpdateChangesNothing ==
    [][(/\ result'.type = "UPDATE"
        /\ ~result'.ok
        /\ result'.error \in {"duplicate primary key value",
                              "foreign key constraint violation"})
       => (table_files' = table_files /\ index_files' = index_files)]_vars

\* C6: in every reachable state, an INSERT with the wrong number of values,
\* a value of the wrong type, a primary-key value some live record already
\* holds, or a foreign-key value no live record of the referenced table
\* holds, raises an error and leaves the record files, the index files and
\* record_count as they were.
C6_ViolatingInsertIsRefused ==
    \A t \in DOMAIN columns : \A q \in InsertQueries(t) :
        LET cols == columns[t]
            named == IF q.columns # <<>> THEN q.columns ELSE Names(cols)
            given(c) == q.values[CHOOSE i \in 1..Len(named) : named[i] = c].value
            wrong_number == Len(q.values) # Len(named)
            wrong_type == \E i \in 1..Len(named) :
                              /\ named[i] \in column_names(cols)
                              /\ TypeMismatch(get_column(cols, named[i]), q.values[i])
            duplicate == /\ t \in DOMAIN primary_keys
                         /\ primary_keys[t] \in Range(named)
                         /\ given(primary_keys[t]) # 0
                         /\ \E i \in LiveIds(table_files[t]) :
                                Get(table_files[t][i], primary_keys[t]) = given(primary_keys[t])
            no_referent == /\ t \in DOMAIN foreign_keys
                           /\ \E c \in (DOMAIN foreign_keys[t]) \cap Range(named) :
                                 LET ref == foreign_keys[t][c]
                                 IN \A j \in LiveIds(table_files[ref.table]) :
                                        Get(table_files[ref.table][j], ref.column) # given(c)
            r == _execute_insert(World, q)
        IN (wrong_number \/ (~wrong_number /\ (wrong_type \/ duplicate \/ no_referent))) =>
               /\ ~r.ok
               /\ r.w.table_files = table_files
               /\ r.w.index_files = index_files
               /\ r.w.tables = tables

\* C7: in every reachable state, a DELETE whose WHERE clause matches a
\* record that a live record of another table references through a foreign
\* key raises an error and deletes nothing: no record is tombstoned, no
\* index entry is removed and record_count is unchanged.
C7_DeleteOfReferencedRecordAborts ==
    \A t \in DOMAIN table_files : \A cond \in Conditions(t) :
        LET matched == _execute_where(World, t, cond)
            referenced ==
                \E j \in 1..Len(matched) : \E other \in (DOMAIN foreign_keys) \ {t} :
                    \E c \in DOMAIN foreign_keys[other] :
                        /\ foreign_keys[other][c].table = t
                        /\ \E i \in LiveIds(table_files[other]) :
                              /\ Get(table_files[other][i], c) # None
                              /\ Get(table_files[other][i], c) =
                                     Get(matched[j][2], foreign_keys[other][c].column)
            r == _execute_delete(World, DeleteQuery(t, cond))
        IN referenced =>
               /\ ~r.ok
               /\ r.w.table_files = table_files
               /\ r.w.index_files = index_files
               /\ r.w.tables = tables


\* C8: in every reachable state, DROP TABLE T is refused, changing nothing,
\* exactly when some table's foreign key references T; otherwise it removes
\* T's record file, T's index files and T's entries in tables, columns,
\* indexes, primary_keys and foreign_keys.
C8_DropTableRefusedIffReferenced ==
    \A t \in DOMAIN tables :
        LET referenced == \E other \in DOMAIN foreign_keys :
                              \E c \in DOMAIN foreign_keys[other] :
                                  foreign_keys[other][c].table = t
            r == _execute_drop_table(World, DropTableQuery(t))
        IN IF referenced
           THEN ~r.ok /\ r.w = World
           ELSE /\ r.ok
                /\ t \notin DOMAIN r.w.table_files
                /\ \A k \in DOMAIN r.w.index_files : k[1] # t
                /\ t \notin DOMAIN r.w.tables
                /\ t \notin DOMAIN r.w.columns
                /\ t \notin DOMAIN r.w.indexes
                /\ t \notin DOMAIN r.w.primary_keys
                /\ t \notin DOMAIN r.w.foreign_keys

\* a DROP TABLE of a table that holds a record was refused because the table
\* is referenced
C8_Witness ==
    /\ result.type = "DROP_TABLE"
    /\ ~result.ok
    /\ result.error = "table is referenced"
    /\ result.table_name \in DOMAIN table_files
    /\ table_files[result.table_name] # <<>>

\* C9: in every reachable state every table with a primary key has an index
\* on the primary-key column, in the catalog and on disk, and DROP INDEX on
\* that column is refused and leaves the index in place.
C9_PrimaryKeyIndexAlwaysThere ==
    \A t \in DOMAIN primary_keys :
        LET r == _execute_drop_index(World, DropIndexQuery(t, primary_keys[t]))
        IN /\ index_exists(World, t, primary_keys[t])
           /\ <<t, primary_keys[t]>> \in DOMAIN index_files
           /\ ~r.ok
           /\ r.w = World

\* a DROP INDEX on the primary-key column of a table holding a record was
\* refused
C9_Witness ==
    /\ result.type = "DROP_INDEX"
    /\ ~result.ok
    /\ result.error = "cannot drop index for primary key column"
    /\ table_files[result.table_name] # <<>>

\* C10: in every reachable state, an otherwise valid INSERT into a table
\* with an INTEGER primary key that leaves the primary key out or gives it
\* as zero stores a record whose primary key is the largest primary key of
\* the live records plus one, or 1 when there is no live record, whether or
\* not the column is declared AUTO_INCREMENT.
C10_MissingPrimaryKeyIsAssigned ==
    \A t \in DOMAIN primary_keys : \A q \in InsertQueries(t) :
        LET cols == columns[t]
            pk == primary_keys[t]
            named == IF q.columns # <<>> THEN q.columns ELSE Names(cols)
            given(c) == q.values[CHOOSE i \in 1..Len(named) : named[i] = c].value
            valid == /\ Len(q.values) = Len(named)
                     /\ \A i \in 1..Len(named) :
                           ~TypeMismatch(get_column(cols, named[i]), q.values[i])
            unset == pk \notin Range(named) \/ given(pk) = 0
            live == {Get(table_files[t][i], pk) : i \in LiveIds(table_files[t])}
            next == IF live = {} THEN 1 ELSE Max(live) + 1
            r == _execute_insert(World, q)
        IN (get_column(cols, pk).type = "INTEGER" /\ valid /\ unset) =>
               /\ r.ok
               /\ Len(r.w.table_files[t]) = Len(table_files[t]) + 1
               /\ r.w.table_files[t][Len(r.w.table_files[t])][pk] = next

(***************************************************************************)
(* Record ids.                                                             *)
(***************************************************************************)

\* the __id__ values a table's file holds, deleted records included
UsedIds(records) == {records[i]["__id__"] : i \in 1..Len(records)}

\* a successful INSERT appends one record whose __id__ exceeds every __id__
\* the file held, and leaves the ids of the earlier records alone
InsertTakesNewId ==
    (result'.type = "INSERT" /\ result'.ok) =>
       LET t == result'.table_name
           new == table_files'[t][Len(table_files'[t])]
       IN /\ Len(table_files'[t]) = Len(table_files[t]) + 1
          /\ \A id \in UsedIds(table_files[t]) : id < new["__id__"]
          /\ UsedIds(SubSeq(table_files'[t], 1, Len(table_files[t]))) = UsedIds(table_files[t])

\* the primary-key index of table t lists the live records of t, each under
\* the value it holds, and nothing else
PrimaryKeyIndexAgrees(t) ==
    LET pk == primary_keys[t]
        records == table_files[t]
    IN /\ <<t, pk>> \in DOMAIN index_files
       /\ \A i \in LiveIds(records) :
             lookup(index_files[<<t, pk>>], Get(records[i], pk)) = <<records[i]["__id__"]>>
       /\ \A key \in DOMAIN index_files[<<t, pk>>] :
             \E i \in LiveIds(records) :
                 /\ Get(records[i], pk) = key
                 /\ index_files[<<t, pk>>][key] = <<records[i]["__id__"]>>

\* INSERT statements giving a full row of table t, the primary key drawn
\* from 1 .. MaxLit + 1 so that a value no record carries is among them
RowsWithKey(t) ==
    LET cols == columns[t]
        i == CHOOSE j \in 1..Len(cols) : cols[j].name = primary_keys[t]
    IN {InsertQuery(t, <<>>, [vs EXCEPT ![i] = IntLit(v)]) :
          vs \in Rows(cols), v \in 1..(MaxLit + 1)}

\* a DELETE that removed records of a table whose primary-key index agreed
\* with the file leaves a table into which an INSERT of a row with an unused
\* primary key succeeds, taking a new id
InsertAfterDeleteSucceeds ==
    (/\ result'.type = "DELETE" /\ result'.ok /\ result'.count > 0
     /\ result'.table_name \in DOMAIN primary_keys
     /\ PrimaryKeyIndexAgrees(result'.table_name)) =>
       \A t \in DOMAIN primary_keys' : t = result'.table_name =>
          \A q \in RowsWithKey(t)' :
             LET r == _execute_insert(World', q)
                 pk == primary_keys'[t]
                 given == InsertRecord(columns'[t], q).w[pk]
                 unused == \A i \in 1..Len(table_files'[t]) :
                               Get(table_files'[t][i], pk) # given
             IN unused =>
                  /\ r.ok
                  /\ \A id \in UsedIds(table_files'[t]) :
                        id < r.w.table_files[t][Len(r.w.table_files[t])]["__id__"]

LimitZeroQueries ==
    {[q EXCEPT !.limit = Limit(0)] : q \in SelectQueries \cup WhereQueries \cup CountQueries}

\* C16: a SELECT with LIMIT 0 returns zero rows, whatever the tables hold and
\* whatever its other clauses are, handed to the executor directly or
\* through the optimizer.
C16_LimitZeroReturnsNoRows ==
    \A q \in LimitZeroQueries :
        /\ _execute_select(World, q).records = <<>>
        /\ optimize_and_execute(World, q).records = <<>>


\* SELECT * FROM <table> [ORDER BY <column>] LIMIT <limit> OFFSET <offset>
OffsetQueries == {q \in LimitQueries : q.limit.type = "dict"}

\* the rows at positions offset .. min(offset + limit, n) - 1, counted from 0
Window(rows, limit, offset) ==
    SubSeq(rows, offset + 1, IF offset + limit < Len(rows) THEN offset + limit ELSE Len(rows))

\* C17: where the SELECT without its LIMIT clause yields n rows after
\* sorting, the SELECT with LIMIT l OFFSET m returns the rows at positions
\* m .. min(m + l, n) - 1 of them, in their order, and no row when m >= n.
C17_LimitOffsetWindow ==
    \A q \in OffsetQueries :
        LET sorted == _execute_select(World, [q EXCEPT !.limit = NoLimit])
        IN sorted.ok =>
             _execute_select(World, q).records
                 = Window(sorted.records, q.limit.limit, q.limit.offset)


\* SELECT COUNT(*) [AS n] FROM <table> [WHERE ...], and COUNT(*) of a join
AggregateQueries == {q \in CountQueries : q.having = NoWhere}

\* the number of live records of the FROM table that satisfy the WHERE clause
MatchingRows(q) ==
    Cardinality({i \in LiveIds(table_files[q.table.name]) :
                   _evaluate_condition(World, NoAlias, q.where, table_files[q.table.name][i])})

\* the one row of SELECT COUNT(*) as it is printed
CountRow(q, n) == [c \in {OutputName(q.projection.columns[1])} |-> Str(n)]

OneCountRow(q, selected) ==
    selected.ok =>
        /\ Len(selected.result.rows) = 1
        /\ q.join.type = "none" => selected.result.rows = <<CountRow(q, MatchingRows(q))>>

HavingQueries == {q \in CountQueries : q.having # NoWhere /\ q.projection.columns[1].alias = "n"}

\* the HAVING condition on the one aggregate row of the implicit group
HavingHolds(q) ==
    _evaluate_condition(World, NoAlias, q.having,
                        [c \in {"n"} |-> MatchingRows(q)])

\* C19: a SELECT of aggregates with a HAVING clause and without GROUP BY
\* returns its one aggregate row if that row satisfies the HAVING condition,
\* and no row otherwise.
C19_HavingFiltersImplicitGroup ==
    \A q \in HavingQueries :
        LET selected == _execute_select(World, q)
        IN selected.ok =>
             Len(selected.records) = IF HavingHolds(q) THEN 1 ELSE 0


\* the column a name stands for, whatever it is qualified with
BareColumn(name) == IF HasDot(name) THEN SplitDot(name)[2] ELSE name

\* C20: a comparison of a column with a literal is false on a record in
\* which the column is absent, for every operator: a SELECT whose WHERE
\* clause is such a comparison returns no record without the column, however
\* the statement names the column.
C20_AbsentOperandIsFalse ==
    \A q \in {x \in WhereQueries : x.where # NoWhere} :
        LET selected == _execute_select(World, q)
        IN \A i \in 1..Len(selected.records) :
              BareColumn(q.where.left) \in DOMAIN selected.records[i][2]


\* The value of a column in a joined record.  The two tables of JoinClauses
\* share no column name, so the column alone tells the key.
FieldOf(record, name) ==
    IF \E key \in DOMAIN record : EndsWith(key, BareColumn(name))
    THEN record[CHOOSE key \in DOMAIN record : EndsWith(key, BareColumn(name))]
    ELSE None

\* a WHERE condition on a joined record
RECURSIVE Holds(_, _)
Holds(condition, record) ==
    CASE condition.type = "comparison" ->
            LET left_value == FieldOf(record, condition.left)
                right_value == IF condition.right.type = "column"
                               THEN FieldOf(record, condition.right.name)
                               ELSE condition.right.value
            IN /\ left_value # None
               /\ right_value # None
               /\ Compare(left_value, condition.operator, right_value)
      [] condition.type = "and" -> Holds(condition.left, record) /\ Holds(condition.right, record)
      [] condition.type = "or" -> Holds(condition.left, record) \/ Holds(condition.right, record)
      [] OTHER -> TRUE

\* the rows of the join without the WHERE clause that satisfy it
JoinedRowsThatHold(q, joined) == SelectSeq(joined.records, LAMBDA row : Holds(q.where, row[2]))

\* C12: a SELECT with a JOIN and a WHERE clause returns exactly the joined
\* rows that satisfy the whole WHERE condition, the conjuncts on one table
\* as well as the rest, handed to the executor directly or through the
\* optimizer.
C12_JoinReturnsRowsThatSatisfyWhere ==
    \A q \in JoinQueries :
        /\ _execute_select(World, q).records
             = JoinedRowsThatHold(q, _execute_select(World, [q EXCEPT !.where = NoWhere]))
        /\ optimize_and_execute(World, q).records
             = JoinedRowsThatHold(q, optimize_and_execute(World, [q EXCEPT !.where = NoWhere]))


\* the name under which the columns of a joined table appear in a row
JoinPrefix(join_info) == IF join_info.alias # NoAlias THEN join_info.alias ELSE join_info.table

\* the row holds a column of every table the query joins
HasEveryJoinedTable(q, record) ==
    \A i \in 1..Len(q.join.joins) :
        \E key \in DOMAIN record : StartsWith(key, JoinPrefix(q.join.joins[i]))

\* C13: a SELECT with two JOIN clauses, run through optimizer and executor,
\* joins all three tables: each returned row combines a row of every joined
\* table.
C13_EveryJoinClauseIsExecuted ==
    \A q \in TwoJoinQueries :
        LET selected == optimize_and_execute(World, q)
        IN (selected.ok /\ selected.records # <<>>) =>
              \A i \in 1..Len(selected.records) :
                  HasEveryJoinedTable(q, selected.records[i][2])


\* the join methods the executor knows
JoinMethods == {"nested-loop", "sort-merge", "index-nested-loop", "hash-join"}

\* C14: for every join of two existing tables, whatever their cardinalities
\* and indexes, the optimizer produces a strategy, and the query it hands to
\* the executor names one of the four join methods.
C14_OptimizerAlwaysNamesAMethod ==
    \A q \in JoinQueries :
        ({q.table.name, q.join.table} \subseteq DOMAIN columns) =>
            /\ optimize(World, q).ok
            /\ optimize(World, q).query.join.method \in JoinMethods


(***************************************************************************)
(* The optimizer's choice of a join method.  The choice is a function of   *)
(* the catalog alone: the two record counts and the indexes on the two     *)
(* join keys.  SpecOptimizer starts from the catalogs that                 *)
(*   CREATE TABLE courses (id INTEGER PRIMARY KEY, title STRING)           *)
(*   CREATE TABLE enroll (cid INTEGER)                                     *)
(*   [CREATE INDEX ON enroll (cid)]                                        *)
(* and the inserts after them leave, with record counts on both sides of   *)
(* the hash-join threshold.  The records themselves, which the optimizer   *)
(* never reads, are left out of the files.                                 *)
(***************************************************************************)
EmptyWorld ==
    [tables |-> EmptyDict, columns |-> EmptyDict, indexes |-> EmptyDict,
     primary_keys |-> EmptyDict, foreign_keys |-> EmptyDict,
     table_files |-> EmptyDict, index_files |-> EmptyDict, table_aliases |-> EmptyDict]

CoursesTable ==
    CreateTableQuery("courses",
        <<Col("id", "INTEGER", TRUE, FALSE), Col("title", "STRING", FALSE, FALSE)>>,
        "id", NoForeignKeys)

EnrollTable ==
    CreateTableQuery("enroll", <<Col("cid", "INTEGER", FALSE, FALSE)>>, NoColumn, NoForeignKeys)

WithTable(w, q) == _execute_create_table(w, q).w

WithIndex(w, indexed) ==
    IF indexed THEN _execute_create_index(w, CreateIndexQuery("enroll", "cid")).w ELSE w

\* SchemaManager.set_record_count
set_record_count(w, table_name, count) ==
    IF table_exists(w, table_name)
    THEN [w EXCEPT !.tables[table_name].record_count = count]
    ELSE w

\* record counts: the small ones, and those whose product with a small one
\* is just below, at and just above the threshold
Sizes ==
    (0..MaxRecords)
    \cup {HashJoinThreshold \div k : k \in 1..(MaxRecords + 1)}
    \cup {(HashJoinThreshold \div k) + 1 : k \in 1..(MaxRecords + 1)}

\* the pairs of record counts with one small side, whose product stays
\* within the integers of the model checker
SizePairs == {pair \in Sizes \X Sizes : pair[1] <= MaxRecords \/ pair[2] <= MaxRecords}

OptimizerWorlds ==
    {set_record_count(
        set_record_count(
            WithIndex(WithTable(WithTable(EmptyWorld, CoursesTable), EnrollTable), indexed),
            "courses", pair[1]),
        "enroll", pair[2]) :
        indexed \in BOOLEAN, pair \in SizePairs}

InitOptimizer ==
    \E w \in OptimizerWorlds :
        /\ tables = w.tables
        /\ columns = w.columns
        /\ indexes = w.indexes
        /\ primary_keys = w.primary_keys
        /\ foreign_keys = w.foreign_keys
        /\ table_files = w.table_files
        /\ index_files = w.index_files
        /\ table_aliases = w.table_aliases
        /\ result = Outcome([type |-> "NONE", table_name |-> ""], TRUE, "", 0)
        /\ statements = 0

\* what the optimizer hands back, as the outcome of a statement
OptimizeOutcome(w, optimized) ==
    [ok |-> optimized.ok, error |-> optimized.error, w |-> w, count |-> 0]

\* QueryOptimizer.optimize on a SELECT with one JOIN
Optimize == \E fj \in JoinClauses :
    Execute([type |-> "OPTIMIZE", table_name |-> fj[1].name],
            OptimizeOutcome(World, optimize(World, JoinSelect(fj[1], fj[2], NoWhere))))

NextOptimizer == Optimize

SpecOptimizer == InitOptimizer /\ [][NextOptimizer]_vars

\* the strategy chosen for the join of a FROM clause and a JOIN clause
Chosen(from, join) == _select_join_method(World, from.name, join.table, join.condition)

\* the three rules in the words of the specification, L the record count of
\* the outer (FROM) table and R that of the inner (joined) table
ChosenAsSpecified(from, join, L, R, outer_indexed, inner_indexed) ==
    LET key == join.condition
    IN IF L * R > 10000000
       THEN /\ Chosen(from, join).method = "hash-join"
            /\ Chosen(from, join)
                 = IF L <= R
                   THEN Strategy("hash-join", from.name, join.table,
                                 key.left_column, key.right_column, FALSE)
                   ELSE Strategy("hash-join", join.table, from.name,
                                 key.right_column, key.left_column, TRUE)
       ELSE IF inner_indexed /\ L <= R
       THEN Chosen(from, join)
              = Strategy("index-nested-loop", from.name, join.table,
                         key.left_column, key.right_column, FALSE)
       ELSE (outer_indexed /\ R < L) =>
               Chosen(from, join)
                 = Strategy("index-nested-loop", join.table, from.name,
                            key.right_column, key.left_column, TRUE)

Titles == {None} \cup StrVals

\* INSERT INTO courses VALUES (n, title), INSERT INTO courses (id) VALUES (n)
CourseRow(n, title) ==
    IF title = None THEN InsertQuery("courses", <<"id">>, <<IntLit(n)>>)
    ELSE InsertQuery("courses", <<>>, <<IntLit(n), StrLit(title)>>)

CreateCourses == Execute(CoursesTable, _execute_create_table(World, CoursesTable))

InsertCourse == \E title \in Titles :
    /\ "courses" \in DOMAIN table_files
    /\ Len(table_files["courses"]) < MaxRecords
    /\ Execute(CourseRow(Len(table_files["courses"]) + 1, title),
               _execute_insert(World, CourseRow(Len(table_files["courses"]) + 1, title)))

Directions == {"ASC", "DESC"}

\* ORDER BY one column, and ORDER BY title, id
OrderLists ==
    {<<OrderItem(c, d)>> : c \in {"id", "title"}, d \in Directions}
    \cup {<<OrderItem("title", d1), OrderItem("id", d2)>> : d1 \in Directions, d2 \in Directions}

\* SELECT * FROM courses ORDER BY ...
OrderQueries ==
    {PlainSelect(TableRef("courses", NoAlias), NoWhere, order_by, NoLimit) :
        order_by \in OrderLists}

OrderedSelect == \E q \in OrderQueries :
    Execute([type |-> "SELECT", table_name |-> q.table.name], _execute_select(World, q))

NextOrder ==
    \/ CreateCourses
    \/ InsertCourse
    \/ OrderedSelect

SpecOrder == Init /\ [][NextOrder]_vars

\* the order of two values of a column: numbers by size, strings character
\* by character
ValueBelow(a, b) ==
    IF a \in StrVals /\ b \in StrVals THEN SeqLess(Text(a), Text(b)) ELSE a < b

\* a comes before b under one ORDER BY item: an absent key is the lowest in
\* ascending order and the highest in descending order
ItemBefore(item, a, b) ==
    IF item.direction = "DESC"
    THEN a # None /\ (b = None \/ ValueBelow(b, a))
    ELSE b # None /\ (a = None \/ ValueBelow(a, b))

\* lexicographic over the ORDER BY items
RECURSIVE RowBefore(_, _, _)
RowBefore(order_by, a, b) ==
    IF order_by = <<>> THEN FALSE
    ELSE IF Get(a, Head(order_by).column) # Get(b, Head(order_by).column)
         THEN ItemBefore(Head(order_by), Get(a, Head(order_by).column),
                         Get(b, Head(order_by).column))
         ELSE RowBefore(Tail(order_by), a, b)

\* the rows are those of the table, and no row comes after one it precedes
InOrder(q, selected) ==
    /\ selected.ok
    /\ Len(selected.records) = Cardinality(LiveIds(table_files[q.table.name]))
    /\ \A i \in 1..Len(selected.records), j \in 1..Len(selected.records) :
          i < j => ~RowBefore(q.order_by, selected.records[j][2], selected.records[i][2])

\* C21: ORDER BY returns the rows of the table sorted lexicographically over
\* the key tuple, each key ascending by default and descending with DESC; a
\* row with an absent key comes first in ascending and last in descending
\* order; DESC on a string column is the reverse of the ascending
\* character-wise order.
C21_OrderByReturnsRowsInOrder ==
    \A q \in OrderQueries :
        q.table.name \in DOMAIN table_files => InOrder(q, _execute_select(World, q))


(***************************************************************************)
(* INSERT followed by SELECT.                                              *)
(***************************************************************************)

\* the values an INSERT statement gives, by column: in the order of the
\* table's columns, or under the names of its column list
Given(q, cols) ==
    IF q.columns = <<>>
    THEN [c \in {cols[i].name : i \in 1..Len(q.values)} |->
            q.values[CHOOSE i \in 1..Len(q.values) : cols[i].name = c].value]
    ELSE [c \in Range(q.columns) |->
            q.values[CHOOSE i \in 1..Len(q.columns) : q.columns[i] = c].value]

\* SELECT * FROM t WHERE pk = k
SelectByKey(t, pk, k) ==
    PlainSelect(TableRef(t, NoAlias), Comparison(pk, "=", IntLit(k)), NoOrder, NoLimit)

\* the SELECT returns one row, and the row holds the given values
ReturnsTheRow(selected, given) ==
    /\ selected.ok
    /\ Len(selected.records) = 1
    /\ \A c \in DOMAIN given : Get(selected.records[1][2], c) = given[c]
    /\ \A c \in DOMAIN given : selected.result.rows[1][c] = Str(given[c])

\* the statement gives the primary key a value that INSERT keeps: a key of
\* 0 is replaced by the next free one
GivesKey(t, pk, q) ==
    /\ Len(q.values) <= Len(columns[t])
    /\ pk \in DOMAIN Given(q, columns[t])
    /\ Given(q, columns[t])[pk] # 0

\* if the INSERT succeeded, the SELECT of its primary key in the world it
\* left returns the row
InsertedIsSelected(t, pk, q, inserted) ==
    (inserted.ok /\ GivesKey(t, pk, q)) =>
        ReturnsTheRow(_execute_select(inserted.w, SelectByKey(t, pk, Given(q, columns[t])[pk])),
                      Given(q, columns[t]))

\* C22: after a successful INSERT of a row with primary key k into a table,
\* SELECT * FROM the table WHERE pk = k returns exactly one row, and its
\* column values are the inserted values.
C22_InsertedRowIsSelected ==
    \A t \in DOMAIN columns :
        get_primary_key(World, t) # NoColumn =>
            \A q \in InsertQueries(t) :
                InsertedIsSelected(t, get_primary_key(World, t), q, _execute_insert(World, q))


(***************************************************************************)
(* The persisted catalog (schema.json).  In memory a column's type is a    *)
(* member of the enum DataType, written "INTEGER" or "STRING" in this      *)
(* module; in the document it is a JSON string, written JsonString(..).    *)
(***************************************************************************)
JsonString(text) == [json |-> text]

\* a save that writes the same tag for both members of the enum
tag_always_string(type) == JsonString("STRING")

\* save_schema: the tag written for a column's type
DataTypeTag(type) == IF type = "INTEGER" THEN JsonString("INTEGER") ELSE JsonString("STRING")

\* load_schema: the member of the enum read from a tag
TagDataType(tag) == IF tag = JsonString("INTEGER") THEN "INTEGER" ELSE "STRING"

serializable_columns(cols) ==
    [t \in DOMAIN cols |->
        [i \in 1..Len(cols[t]) |-> [cols[t][i] EXCEPT !.type = DataTypeTag(cols[t][i].type)]]]

save_schema(w) ==
    [tables |-> w.tables, columns |-> serializable_columns(w.columns), indexes |-> w.indexes,
     primary_keys |-> w.primary_keys, foreign_keys |-> w.foreign_keys]

load_schema(w, schema_data) ==
    [w EXCEPT !.tables = schema_data.tables,
              !.columns = [t \in DOMAIN schema_data.columns |->
                  [i \in 1..Len(schema_data.columns[t]) |->
                      [schema_data.columns[t][i] EXCEPT
                          !.type = TagDataType(schema_data.columns[t][i].type)]]],
              !.indexes = schema_data.indexes,
              !.primary_keys = schema_data.primary_keys,
              !.foreign_keys = schema_data.foreign_keys]

\* the catalog of a world, as the five dicts of SchemaManager
CatalogOf(w) == <<w.tables, w.columns, w.indexes, w.primary_keys, w.foreign_keys>>

\* save_schema followed by load_schema: the catalog is written to the
\* document and read back from it
SaveAndLoad ==
    Execute([type |-> "LOAD", table_name |-> ""],
            [ok |-> TRUE, error |-> "", count |-> 0, w |-> load_schema(World, save_schema(World))])

NextCatalog ==
    \/ CreateTable
    \/ DropTable
    \/ CreateIndex
    \/ DropIndex
    \/ Insert
    \/ Update
    \/ Delete
    \/ SaveAndLoad

SpecCatalog == Init /\ [][NextCatalog]_vars

\* C23: in every catalog state reached through DDL and DML, the catalog
\* loaded from the saved document is the catalog that was saved (tables
\* with record counts, ordered column definitions with type and flags,
\* indexes, primary keys, foreign keys), and saving it again writes the
\* same document.
C23_SaveLoadSaveIsTheSameCatalog ==
    /\ CatalogOf(load_schema(World, save_schema(World))) = CatalogOf(World)
    /\ save_schema(load_schema(World, save_schema(World))) = save_schema(World)

\* a catalog with both column types, a primary key, an index, a foreign key
\* and a counted record has been saved and loaded
C23_Witness ==
    /\ result.type = "LOAD"
    /\ \E t \in DOMAIN columns : \E i, j \in 1..Len(columns[t]) :
           columns[t][i].type = "INTEGER" /\ columns[t][j].type = "STRING"
    /\ \E t \in DOMAIN primary_keys : TRUE
    /\ \E t \in DOMAIN foreign_keys : DOMAIN foreign_keys[t] # {}
    /\ \E t \in DOMAIN tables : tables[t].record_count > 0


(***************************************************************************)
(* The class of the exception a DROP TABLE leaves its caller with, layer   *)
(* by layer.                                                               *)
(***************************************************************************)
NoException == ""

\* SchemaManager.drop_table raises SchemaError and nothing else
drop_table_raises(w, table_name) ==
    IF SchemaManager_drop_table(w, table_name).ok THEN NoException ELSE "SchemaError"

\* Executor._execute_drop_table catches every exception of drop_table and
\* raises ExecutionError with its message; Executor.execute lets a DBMSError
\* pass as it is
execute_drop_table_raises(w, q) ==
    IF drop_table_raises(w, q.table_name) = NoException THEN NoException ELSE "ExecutionError"

\* SQLParser._validate_drop_table, which run_query calls before the executor
validate_drop_table_raises(w, q) ==
    IF ~table_exists(w, q.table_name) THEN "ValidationError" ELSE NoException

\* a DROP TABLE of table_name has just been executed in a catalog without it
DroppedNonexistent(table_name) ==
    /\ ~table_exists(World, table_name)
    /\ statements' = statements + 1
    /\ result'.type = "DROP_TABLE"
    /\ result'.table_name = table_name

\* C24: a DROP TABLE of a table that does not exist raises SchemaError and
\* leaves the catalog (tables, columns, indexes, primary keys, foreign
\* keys) as it was.
C24_DropNonexistentRaisesSchemaError ==
    [][\A t \in TableNames : DroppedNonexistent(t) =>
          /\ ~result'.ok
          /\ execute_drop_table_raises(World, DropTableQuery(t)) = "SchemaError"
          /\ catalog' = catalog]_vars


(***************************************************************************)
(* DBMSApplication.run_query, stage by stage.  The statement in flight is  *)
(* kept in result: its stage, the text received, the parsed query as the   *)
(* last stage left it, and the exception raised, if any.                   *)
(***************************************************************************)
\* what the parser makes of a text: a parsed query, or ParseError
Text_(parses, query) == [parses |-> parses, query |-> query]
NoQuery == [type |-> "NONE", table_name |-> ""]
Malformed == Text_(FALSE, NoQuery)

EnrollOfCourses ==
    CreateTableQuery("enroll", <<Col("cid", "INTEGER", FALSE, FALSE)>>, NoColumn, ToCourses("id"))

Texts ==
    {Malformed}
    \cup {Text_(TRUE, q) : q \in {CoursesTable, EnrollOfCourses}}
    \cup {Text_(TRUE, DropTableQuery(t)) : t \in {"courses", "enroll"}}
    \cup {Text_(TRUE, CreateIndexQuery("enroll", "cid")), Text_(TRUE, DropIndexQuery("enroll", "cid"))}
    \cup {Text_(TRUE, InsertQuery("courses", <<>>, <<IntLit(1), StrLit(101)>>)),
          Text_(TRUE, InsertQuery("enroll", <<>>, <<IntLit(1)>>))}
    \cup {Text_(TRUE, PlainSelect(TableRef("courses", NoAlias), NoWhere, NoOrder, NoLimit))}
    \cup {Text_(TRUE, JoinSelect(fj[1], fj[2], NoWhere)) : fj \in JoinClauses}

QueryTable(q) == IF q.type = "SELECT" THEN q.table.name ELSE q.table_name

\* SQLParser.parse
parse_raises(text) == IF text.parses THEN NoException ELSE "ParseError"

\* SQLParser._validate_insert, the form without a column list
_validate_insert(w, q) ==
    IF ~table_exists(w, q.table_name) THEN "ValidationError"
    ELSE LET all_columns == w.columns[q.table_name]
             primary_key == get_primary_key(w, q.table_name)
             fks == get_foreign_keys(w, q.table_name)
             At(c) == CHOOSE i \in 1..Len(all_columns) : all_columns[i].name = c
         IN IF Len(q.values) # Len(all_columns) THEN "ValidationError"
            ELSE IF \E i \in 1..Len(all_columns) :
                       \/ q.values[i].type = "integer" /\ all_columns[i].type # "INTEGER"
                       \/ q.values[i].type = "string" /\ all_columns[i].type # "STRING"
                 THEN "ValidationError"
            ELSE IF /\ primary_key # NoColumn
                    /\ primary_key_exists(w, q.table_name, q.values[At(primary_key)].value)
                 THEN "ValidationError"
            ELSE IF \E c \in DOMAIN fks :
                       ~foreign_key_exists(w, fks[c].table, fks[c].column, q.values[At(c)].value)
                 THEN "ValidationError"
            ELSE NoException

\* register_table: the name a table is registered under
AliasOf(name, alias) == IF alias = NoAlias THEN name ELSE alias

\* the joins of a SELECT as a list
JoinsOf(q) ==
    IF q.join.type = "none" THEN <<>>
    ELSE IF q.join.type = "list" THEN q.join.joins ELSE <<q.join>>

\* table_map: alias or name -> table name, a later JOIN replacing an
\* earlier entry of the same name
TableMap(table, joins) ==
    [a \in {AliasOf(table.name, table.alias)}
              \cup {AliasOf(joins[i].table, joins[i].alias) : i \in 1..Len(joins)} |->
        IF \E i \in 1..Len(joins) : AliasOf(joins[i].table, joins[i].alias) = a
        THEN joins[CHOOSE i \in 1..Len(joins) :
                     /\ AliasOf(joins[i].table, joins[i].alias) = a
                     /\ \A j \in (i + 1)..Len(joins) :
                           AliasOf(joins[j].table, joins[j].alias) # a].table
        ELSE table.name]

ValidateTables(w, joins, table_map) ==
    IF \E a \in DOMAIN table_map : ~table_exists(w, table_map[a]) THEN "ValidationError"
    ELSE IF \E i \in 1..Len(joins) :
               \/ joins[i].condition.left_table \notin DOMAIN table_map
               \/ joins[i].condition.right_table \notin DOMAIN table_map
               \/ ~column_exists(w, table_map[joins[i].condition.left_table],
                                 joins[i].condition.left_column)
               \/ ~column_exists(w, table_map[joins[i].condition.right_table],
                                 joins[i].condition.right_column)
         THEN "ValidationError"
    ELSE NoException

\* SQLParser._validate_select for SELECT * without WHERE
_validate_select(w, q) == ValidateTables(w, JoinsOf(q), TableMap(q.table, JoinsOf(q)))

\* SQLParser.validate
validate(w, q) ==
    CASE q.type = "CREATE_TABLE" ->
             IF table_exists(w, q.table_name) THEN "ValidationError" ELSE NoException
      [] q.type = "DROP_TABLE" -> validate_drop_table_raises(w, q)
      [] q.type = "CREATE_INDEX" ->
             IF \/ ~table_exists(w, q.table_name)
                \/ ~column_exists(w, q.table_name, q.column_name)
                \/ index_exists(w, q.table_name, q.column_name)
             THEN "ValidationError" ELSE NoException
      [] q.type = "DROP_INDEX" ->
             IF ~table_exists(w, q.table_name) \/ ~index_exists(w, q.table_name, q.column_name)
             THEN "ValidationError" ELSE NoException
      [] q.type = "SELECT" -> _validate_select(w, q)
      [] q.type = "INSERT" -> _validate_insert(w, q)
      [] OTHER -> NoException

\* the outcome of a SELECT without its rows
Counted(selected) ==
    [ok |-> selected.ok, error |-> selected.error, w |-> selected.w, count |-> selected.count]

\* Executor.execute: the handler of the statement's type
Executor_execute(w, q) ==
    CASE q.type = "CREATE_TABLE" -> _execute_create_table(w, q)
      [] q.type = "DROP_TABLE" -> _execute_drop_table(w, q)
      [] q.type = "CREATE_INDEX" -> _execute_create_index(w, q)
      [] q.type = "DROP_INDEX" -> _execute_drop_index(w, q)
      [] q.type = "INSERT" -> _execute_insert(w, q)
      [] q.type = "SELECT" -> Counted(_execute_select(w, q))
      [] OTHER -> Fail("unsupported query type", w, 0)

\* a stage that lets an exception pass and goes on
stage_despite_exception(exception, stage) == stage

\* run_query: an exception raised anywhere in the try block ends the statement
StageAfter(exception, stage) == IF exception # NoException THEN "Failed" ELSE stage

InFlight(stage, text, query, exception, count) ==
    [type |-> query.type, table_name |-> QueryTable(query), ok |-> exception = NoException,
     error |-> exception, count |-> count, stage |-> stage, text |-> text, query |-> query]

InitPipeline ==
    /\ tables = EmptyDict
    /\ columns = EmptyDict
    /\ indexes = EmptyDict
    /\ primary_keys = EmptyDict
    /\ foreign_keys = EmptyDict
    /\ table_files = EmptyDict
    /\ index_files = EmptyDict
    /\ table_aliases = EmptyDict
    /\ result = InFlight("Idle", Malformed, NoQuery, NoException, 0)
    /\ statements = 0

NoExecution == UNCHANGED <<tables, columns, indexes, primary_keys, foreign_keys,
                           table_files, index_files, table_aliases>>

\* run_query is called with a text
Receive == \E text \in Texts :
    /\ result.stage \in {"Idle", "Succeeded", "Failed"}
    /\ statements < MaxStatements
    /\ text.query.type = "INSERT" => Slots(table_files, DOMAIN table_files) < MaxRecords
    /\ statements' = statements + 1
    /\ result' = InFlight("Received", text, NoQuery, NoException, 0)
    /\ NoExecution

\* line 71: self.parser.parse(query)
Parse ==
    /\ result.stage = "Received"
    /\ result' = InFlight(StageAfter(parse_raises(result.text), "Parsed"), result.text,
                          result.text.query, parse_raises(result.text), 0)
    /\ UNCHANGED statements
    /\ NoExecution

\* line 74: self.parser.validate(parsed_query, self.schema_manager)
Validated(exception) ==
    /\ result' = InFlight(StageAfter(exception, "Validated"), result.text, result.query,
                          exception, 0)
    /\ UNCHANGED statements
    /\ NoExecution

Validate ==
    /\ result.stage = "Parsed"
    /\ Validated(validate(World, result.query))

\* lines 77-81: the optimizer, for a SELECT
OptimizedTo(optimized) ==
    /\ result' = InFlight(StageAfter(optimized.error, "Optimized"), result.text,
                          optimized.query, optimized.error, 0)
    /\ UNCHANGED statements
    /\ NoExecution

OptimizeStage ==
    /\ result.stage = "Validated"
    /\ result.query.type = "SELECT"
    /\ OptimizedTo(optimize(World, result.query))

\* line 84: self.executor.execute(parsed_query) is entered
Enter ==
    /\ \/ result.stage = "Validated" /\ result.query.type # "SELECT"
       \/ result.stage = "Optimized"
    /\ result' = [result EXCEPT !.stage = "Executing"]
    /\ UNCHANGED statements
    /\ NoExecution

\* lines 84-91: the executor returns or raises
Left(r) ==
    /\ tables' = r.w.tables
    /\ columns' = r.w.columns
    /\ indexes' = r.w.indexes
    /\ primary_keys' = r.w.primary_keys
    /\ foreign_keys' = r.w.foreign_keys
    /\ table_files' = r.w.table_files
    /\ index_files' = r.w.index_files
    /\ table_aliases' = r.w.table_aliases
    /\ result' = InFlight(StageAfter(r.error, "Succeeded"), result.text, result.query,
                          r.error, r.count)
    /\ UNCHANGED statements

Leave ==
    /\ result.stage = "Executing"
    /\ Left(Executor_execute(World, result.query))

RunQuery == Parse \/ Validate \/ OptimizeStage \/ Enter \/ Leave

NextPipeline ==
    \/ Receive
    \/ Parse
    \/ Validate
    \/ OptimizeStage
    \/ Enter
    \/ Leave

\* run_query runs to its return once called
SpecPipeline == InitPipeline /\ [][NextPipeline]_vars /\ WF_vars(RunQuery)

Stages == <<"Received", "Parsed", "Validated", "Optimized", "Executing">>
Ended == {"Succeeded", "Failed"}

StageNumber(stage) == CHOOSE i \in 1..Len(Stages) : Stages[i] = stage

\* the stage after is the next of the list (Optimized passed over unless
\* the statement is a SELECT), or Failed, or, from Executing, Succeeded
InOrder_(before, after, type) ==
    CASE before \in Ended \cup {"Idle"} -> after = "Received"
      [] before = "Executing" -> after \in Ended
      [] before = "Validated" ->
             after = "Failed" \/ after = (IF type = "SELECT" THEN "Optimized" ELSE "Executing")
      [] OTHER -> after = "Failed" \/ after = Stages[StageNumber(before) + 1]

\* C25: a statement goes through Received, Parsed, Validated, Optimized (a
\* SELECT, and only a SELECT), Executing, and ends Succeeded or Failed, in
\* that order and to the end; a statement whose parsing or validation
\* raised is in none of the later stages, the optimizer is entered only
\* with a validated SELECT, and nothing is executed but by a statement
\* that is Executing.
C25_StagesInOrder ==
    /\ [][/\ result'.stage # result.stage =>
                InOrder_(result.stage, result'.stage, result'.type)
          /\ result'.stage \in Range(Stages) \ {"Received"} => result'.error = NoException
          /\ result'.stage = "Optimized" =>
                /\ result.stage = "Validated"
                /\ result.query.type = "SELECT"
                /\ validate(World, result.query) = NoException
          /\ result'.stage = "Executing" =>
                /\ parse_raises(result.text) = NoException
                /\ validate(World, result.text.query) = NoException
          /\ World' # World => result.stage = "Executing"]_vars
    /\ (result.stage = "Received" ~> result.stage \in Ended)

\* a SELECT with a JOIN has been through every stage: the optimizer has
\* named its join method and the executor has returned its rows
C25_Witness ==
    /\ result.stage = "Succeeded"
    /\ result.type = "SELECT"
    /\ result.query.join.type = "join"
    /\ result.query.join.method # NoMethod


(***************************************************************************)
(* DiskManager.vacuum_table.                                               *)
(***************************************************************************)
\* the same records with __id__ counted from 0
Renumbered(records) == [i \in 1..Len(records) |-> Put(records[i], "__id__", i - 1)]

\* read_table, the filter, the new ids and write_table; no index is read or
\* written
vacuum_table(w, table_name) ==
    IF table_name \notin DOMAIN w.table_files THEN Fail("table file does not exist", w, 0)
    ELSE Done([w EXCEPT !.table_files[table_name] = Renumbered(active_records(@))],
              Len(w.table_files[table_name]) - Len(active_records(w.table_files[table_name])))

VacuumQuery(t) == [type |-> "VACUUM", table_name |-> t]

Vacuum == \E t \in TableNames : Execute(VacuumQuery(t), vacuum_table(World, t))

NextVacuum ==
    \/ CreatePlainTable
    \/ CreateIndex
    \/ Insert
    \/ Delete
    \/ Vacuum

SpecVacuum == Init /\ [][NextVacuum]_vars

\* table t has just been vacuumed
Vacuumed(t) ==
    /\ statements' = statements + 1
    /\ result'.type = "VACUUM"
    /\ result'.table_name = t
    /\ result'.ok

\* the ids of the live records of a file that hold the value under a column
Holders(records, column_name, value) ==
    {records[i]["__id__"] : i \in {j \in LiveIds(records) : Get(records[j], column_name) = value}}

\* the file holds the records live before, in their order, numbered 0..n-1
Compacted(before, after) ==
    /\ Len(after) = Cardinality(LiveIds(before))
    /\ \A i \in 1..Len(after) :
          /\ after[i]["__id__"] = i - 1
          /\ ~IsDeleted(after[i])
          /\ after[i] = Put(active_records(before)[i], "__id__", i - 1)

\* the index lists, under every value held, the ids of the live records
\* holding it
IndexOfFile(index, records, column_name) ==
    /\ \A key \in DOMAIN index : Range(index[key]) = Holders(records, column_name, key)
    /\ \A i \in LiveIds(records) :
          Get(records[i], column_name) # None => Get(records[i], column_name) \in DOMAIN index

\* C26: after a vacuum of table t the file holds exactly the records that
\* were live, in their order, with __id__ 0..n-1, and every index on t maps
\* each value to the new ids of the live records holding it.
C26_VacuumCompactsAndReindexes ==
    [][\A t \in TableNames : Vacuumed(t) =>
          /\ Compacted(table_files[t], table_files'[t])
          /\ \A k \in DOMAIN index_files' :
                k[1] = t => IndexOfFile(index_files'[k], table_files'[t], k[2])]_vars


(***************************************************************************)
(* The four join methods on the same inputs: courses (id, title) and       *)
(* enroll (id, cid), rows that lack the join column among them.            *)
(***************************************************************************)
EnrollWithId ==
    CreateTableQuery("enroll",
        <<Col("id", "INTEGER", FALSE, FALSE), Col("cid", "INTEGER", FALSE, FALSE)>>,
        NoColumn, NoForeignKeys)

CreateEnroll == Execute(EnrollWithId, _execute_create_table(World, EnrollWithId))

IndexEnroll ==
    Execute(CreateIndexQuery("enroll", "cid"),
            _execute_create_index(World, CreateIndexQuery("enroll", "cid")))

\* INSERT INTO enroll VALUES (n, cid), INSERT INTO enroll (id) VALUES (n)
EnrollRow(n, cid) ==
    IF cid = None THEN InsertQuery("enroll", <<"id">>, <<IntLit(n)>>)
    ELSE InsertQuery("enroll", <<>>, <<IntLit(n), IntLit(cid)>>)

InsertJoinRow ==
    /\ Slots(table_files, DOMAIN table_files) < MaxRecords
    /\ \/ /\ "courses" \in DOMAIN table_files
          /\ Execute(CourseRow(Len(table_files["courses"]) + 1, 101),
                     _execute_insert(World, CourseRow(Len(table_files["courses"]) + 1, 101)))
       \/ /\ "enroll" \in DOMAIN table_files
          /\ \E cid \in {None} \cup (1..MaxLit) :
                Execute(EnrollRow(Len(table_files["enroll"]) + 1, cid),
                        _execute_insert(World, EnrollRow(Len(table_files["enroll"]) + 1, cid)))

\* the outer input of a join: the records of the FROM table that a
\* condition selects, under the alias of the table
OuterInput(w, from, where) == Aliased(from.alias, _execute_where(w, from.name, where))

\* _execute_single_join by a named method
JoinBy(w, from, join, method, left_records) ==
    _execute_single_join(w, IF from.alias = NoAlias THEN from.name ELSE from.alias,
                         from.name, [join EXCEPT !.method = method], left_records)

JoinOutcome(joined) ==
    [ok |-> joined.ok, error |-> joined.error, w |-> joined.w, count |-> Len(joined.rows)]

\* no condition, or id = n for the ids the rows can have and one more
JoinFilters == {NoWhere} \cup {Comparison("id", "=", IntLit(n)) : n \in 1..(MaxLit + 1)}

SingleJoin == \E fj \in JoinClauses, method \in JoinMethods, where \in JoinFilters :
    /\ fj[1].name \in DOMAIN table_files
    /\ Execute([type |-> "JOIN", table_name |-> fj[1].name],
               JoinOutcome(JoinBy(World, fj[1], fj[2], method,
                                  OuterInput(World, fj[1], where))))

NextJoin ==
    \/ CreateCourses
    \/ CreateEnroll
    \/ IndexEnroll
    \/ InsertJoinRow
    \/ Delete
    \/ SingleJoin

SpecJoin == Init /\ [][NextJoin]_vars

\* the number of times each row occurs
BagOf(rows) == [row \in Range(rows) |-> Cardinality({i \in 1..Len(rows) : rows[i] = row})]

\* index-nested-loop needs the index of the inner column
CanRun(w, join, method) ==
    method = "index-nested-loop" =>
        <<join.table, join.condition.right_column>> \in DOMAIN w.index_files

\* the row is a record of the outer input and a live record of the inner
\* table, every column under the name or alias of its side
CarriesBoth(w, from, join, left_records, row) ==
    \E i \in 1..Len(left_records), j \in LiveIds(w.table_files[join.table]) :
        row[2] = PrefixedRecord(AliasOf(from.name, from.alias), AliasOf(join.table, join.alias),
                                w.table_files[from.name][left_records[i][1] + 1],
                                w.table_files[join.table][j])

SameRows(w, from, join, left_records) ==
    \A method \in JoinMethods :
        CanRun(w, join, method) =>
            /\ JoinBy(w, from, join, method, left_records).ok
            /\ BagOf(JoinBy(w, from, join, method, left_records).rows)
                  = BagOf(JoinBy(w, from, join, "nested-loop", left_records).rows)
            /\ \A n \in 1..Len(JoinBy(w, from, join, method, left_records).rows) :
                  CarriesBoth(w, from, join, left_records,
                              JoinBy(w, from, join, method, left_records).rows[n])

\* C27: on the same outer input (all records of the FROM table or those a
\* condition selects), the same inner table and the same equi-join
\* condition, nested-loop, sort-merge, index-nested-loop and hash-join
\* return the same multiset of joined rows, each row carrying every column
\* of both records under alias.col names; so too when keys repeat and when
\* a record lacks the join column.
C27_JoinMethodsAgree ==
    \A fj \in JoinClauses, where \in JoinFilters :
        fj[1].name \in DOMAIN table_files /\ fj[2].table \in DOMAIN table_files =>
            SameRows(World, fj[1], fj[2], OuterInput(World, fj[1], where))


(***************************************************************************)
(* Deleted records.  The statements of the joins, UPDATE and single-table  *)
(* SELECT, on courses (id, title) and enroll (id, cid).                    *)
(***************************************************************************)
SelectWhere == \E t \in {"courses", "enroll"} : \E cond \in Conditions(t) :
    Execute([type |-> "SELECT", table_name |-> t],
            _execute_select(World, PlainSelect(TableRef(t, NoAlias), cond, NoOrder, NoLimit)))

NextDeleted ==
    \/ CreateCourses
    \/ CreateEnroll
    \/ IndexEnroll
    \/ InsertJoinRow
    \/ Update
    \/ Delete
    \/ SelectWhere
    \/ SingleJoin

SpecDeleted == Init /\ [][NextDeleted]_vars

\* the tombstoned slots of a file
DeadIds(records) == {i \in 1..Len(records) : IsDeleted(records[i])}

\* every tombstoned record is in its slot, as it was, after the step
TombstonesKept ==
    \A t \in DOMAIN table_files \cap DOMAIN table_files' :
        \A i \in DeadIds(table_files[t]) :
            /\ i \in 1..Len(table_files'[t])
            /\ table_files'[t][i] = table_files[t][i]

\* UPDATE and DELETE count live records only
CountsLive ==
    \A t \in DOMAIN table_files \cap DOMAIN table_files' :
        /\ result'.type = "DELETE" /\ result'.table_name = t /\ result'.ok =>
              result'.count = Cardinality(LiveIds(table_files[t]))
                                - Cardinality(LiveIds(table_files'[t]))
        /\ result'.type = "UPDATE" /\ result'.table_name = t =>
              result'.count <= Cardinality(LiveIds(table_files[t]))

\* a single-table SELECT returns live records only
SelectsLive(w, t, cond) ==
    LET selected == _execute_select(w, PlainSelect(TableRef(t, NoAlias), cond, NoOrder, NoLimit))
    IN /\ Len(selected.records) <= Cardinality(LiveIds(w.table_files[t]))
       /\ \A n \in 1..Len(selected.records) :
             selected.records[n][1] + 1 \in LiveIds(w.table_files[t])

\* a joined row is made of a live record of either table
JoinsLive(w, from, join, joined) ==
    \A n \in 1..Len(joined.rows) :
        \E pl, pr \in Prefixes :
            \E i \in LiveIds(w.table_files[from.name]), j \in LiveIds(w.table_files[join.table]) :
                joined.rows[n][2] = PrefixedRecord(pl, pr, w.table_files[from.name][i],
                                                   w.table_files[join.table][j])

NoneObserved ==
    /\ \A t \in DOMAIN table_files : \A cond \in Conditions(t) : SelectsLive(World, t, cond)
    /\ \A fj \in JoinClauses, method \in JoinMethods, where \in JoinFilters :
          fj[1].name \in DOMAIN table_files /\ fj[2].table \in DOMAIN table_files =>
              JoinsLive(World, fj[1], fj[2],
                        JoinBy(World, fj[1], fj[2], method, OuterInput(World, fj[1], where)))

\* C28: a deleted record is never observed again: in every state no SELECT,
\* of one table or of a join by any of the four methods, returns a
\* tombstoned record, and no statement matches, changes or counts one,
\* clears its tombstone or gives its slot to another record.
C28_DeletedNeverObserved ==
    /\ []NoneObserved
    /\ [][TombstonesKept /\ CountsLive]_vars

\* a table holds a tombstoned record beside a live one, and a SELECT or a
\* join has just returned a row
C28_Witness ==
    /\ result.type \in {"SELECT", "JOIN"}
    /\ result.ok
    /\ result.count > 0
    /\ \E t \in DOMAIN table_files :
          DeadIds(table_files[t]) # {} /\ LiveIds(table_files[t]) # {}


(***************************************************************************)
(* The optimizer's reordering of a WHERE condition, on courses (id, title) *)
(* with the primary-key index on id and an index on title or none.         *)
(***************************************************************************)
\* executor.py 2171-2178: Python orders no string against an integer
CompareRaises(left_value, operator, right_value) ==
    /\ operator \in RangeOperators
    /\ (left_value \in StrVals) # (right_value \in StrVals)

\* lines 2089-2235: the evaluation reaches a comparison that raises the
\* TypeError; AND and OR evaluate the right operand only when the left one
\* does not decide
RECURSIVE EvaluationRaises(_, _, _, _)
EvaluationRaises(w, first, condition, record) ==
    CASE condition.type = "comparison" ->
            LET left_value == ColumnValue(w, first, condition.left, record)
                right_value == _get_expression_value(w, first, condition.right, record)
            IN /\ left_value # None
               /\ right_value # None
               /\ CompareRaises(left_value, condition.operator, right_value)
      [] condition.type = "and" ->
            \/ EvaluationRaises(w, first, condition.left, record)
            \/ /\ _evaluate_condition(w, first, condition.left, record)
               /\ EvaluationRaises(w, first, condition.right, record)
      [] condition.type = "or" ->
            \/ EvaluationRaises(w, first, condition.left, record)
            \/ /\ ~_evaluate_condition(w, first, condition.left, record)
               /\ EvaluationRaises(w, first, condition.right, record)
      [] OTHER -> FALSE

\* _execute_where with the exception of a comparison let through
WhereOutcome(w, table_name, condition) ==
    IF \E i \in LiveIds(w.table_files[table_name]) :
          EvaluationRaises(w, NoAlias, condition, w.table_files[table_name][i])
    THEN NoRows("TypeError", w)
    ELSE RowsOf(w, _execute_where(w, table_name, condition))

InsertTitled == \E title \in {None, 103} :
    /\ "courses" \in DOMAIN table_files
    /\ Len(table_files["courses"]) < MaxRecords
    /\ Execute(CourseRow(Len(table_files["courses"]) + 1, title),
               _execute_insert(World, CourseRow(Len(table_files["courses"]) + 1, title)))

IndexTitle == Execute(CreateIndexQuery("courses", "title"),
                      _execute_create_index(World, CreateIndexQuery("courses", "title")))

\* comparisons of a column with an integer, and the conditions made of them
LeafOperators == {"=", "!=", "<"}
Leaves == {Comparison(c, op, IntLit(n)) : c \in {"id", "title"}, op \in LeafOperators, n \in 1..MaxLit}
FewLeaves == {Comparison("id", "=", IntLit(1)), Comparison("title", "<", IntLit(1))}
Pairs == {And(a, b) : a, b \in Leaves} \cup {Or(a, b) : a, b \in Leaves}
Nested ==
    {And(p, l) : p \in Pairs, l \in FewLeaves} \cup {And(l, p) : p \in Pairs, l \in FewLeaves}
    \cup {Or(p, l) : p \in Pairs, l \in FewLeaves} \cup {Or(l, p) : p \in Pairs, l \in FewLeaves}
WhereTrees == Leaves \cup Pairs \cup Nested

\* the WHERE clause of a SELECT on courses after the optimizer
OptimizedWhere(w, condition) ==
    _optimize_conditions(w, condition, TableRef("courses", NoAlias)).condition

OptimizeWhere == \E condition \in Pairs :
    /\ "courses" \in DOMAIN table_files
    /\ Execute([type |-> "WHERE", table_name |-> "courses"],
               JoinOutcome(WhereOutcome(World, "courses", OptimizedWhere(World, condition))))

NextConditions ==
    \/ CreateCourses
    \/ InsertTitled
    \/ IndexTitle
    \/ Delete
    \/ OptimizeWhere

SpecConditions == Init /\ [][NextConditions]_vars

\* the conditions a condition becomes by exchanging the operands of AND nodes
RECURSIVE Permuted(_)
Permuted(condition) ==
    CASE condition.type = "and" ->
            {And(a, b) : a \in Permuted(condition.left), b \in Permuted(condition.right)}
            \cup {And(b, a) : a \in Permuted(condition.left), b \in Permuted(condition.right)}
      [] condition.type = "or" ->
            {Or(a, b) : a \in Permuted(condition.left), b \in Permuted(condition.right)}
      [] OTHER -> {condition}

\* every AND node has the operand of the lower estimate on the left
RECURSIVE MostSelectiveFirst(_, _)
MostSelectiveFirst(w, condition) ==
    IF condition.type \in {"and", "or"}
    THEN /\ MostSelectiveFirst(w, condition.left)
         /\ MostSelectiveFirst(w, condition.right)
         /\ condition.type = "and" =>
              ~Less(_optimize_conditions(w, condition.right, TableRef("courses", NoAlias)).selectivity,
                    _optimize_conditions(w, condition.left, TableRef("courses", NoAlias)).selectivity)
    ELSE TRUE

OnlyPermuted(w, condition, optimized) ==
    /\ optimized \in Permuted(condition)
    /\ MostSelectiveFirst(w, optimized)

SameSelection(w, condition, optimized) ==
    LET before == WhereOutcome(w, "courses", condition)
        after == WhereOutcome(w, "courses", optimized)
    IN before.ok = after.ok /\ before.rows = after.rows

\* C29: optimizing a WHERE condition only exchanges the operands of AND
\* nodes, leaves the operand of the lower estimated selectivity on the left
\* of every AND node and the operands of OR nodes in their order, and the
\* optimized condition selects the same rows as the original one on every
\* content of the table.
C29_OptimizedConditionSelectsSameRows ==
    "courses" \in DOMAIN table_files =>
        \A condition \in WhereTrees :
            /\ OnlyPermuted(World, condition, OptimizedWhere(World, condition))
            /\ SameSelection(World, condition, OptimizedWhere(World, condition))


(***************************************************************************)
(* The frame of a successful UPDATE.                                       *)
(***************************************************************************)
\* the value an UPDATE gives a column
SetValue(set_items, column_name) ==
    LET i == CHOOSE j \in 1..Len(set_items) : set_items[j].column = column_name
    IN set_items[i].value.value

\* the ids an index holds under a value
IdsUnder(index, value) == Range(lookup(index, value))

\* the slots of the records a condition matches
MatchedSlots(w, table_name, condition) ==
    LET matching_records == _execute_where(w, table_name, condition)
    IN {matching_records[j][1] + 1 : j \in 1..Len(matching_records)}

\* a matched record has the SET columns at their new values and nothing else changed
RecordUpdated(before, after, set_items) ==
    /\ DOMAIN after = DOMAIN before \cup SetColumns(set_items)
    /\ \A c \in DOMAIN after :
          after[c] = IF c \in SetColumns(set_items) THEN SetValue(set_items, c) ELSE before[c]

\* the index of a SET column holds each matched id under the new value and
\* no longer under the value the record had, and every other id where it was
IndexMoved(before, after, records, slots, column_name, value) ==
    \A v \in DOMAIN before \cup DOMAIN after \cup {value} :
        IdsUnder(after, v) =
            (IdsUnder(before, v) \ {s - 1 : s \in {x \in slots : Get(records[x], column_name) = v}})
                \cup (IF v = value THEN {s - 1 : s \in slots} ELSE {})

FilesFramed(before, after, table_name, set_items, slots) ==
    /\ DOMAIN after = DOMAIN before
    /\ \A u \in DOMAIN before \ {table_name} : after[u] = before[u]
    /\ Len(after[table_name]) = Len(before[table_name])
    /\ \A i \in 1..Len(before[table_name]) :
          IF i \in slots
          THEN RecordUpdated(before[table_name][i], after[table_name][i], set_items)
          ELSE after[table_name][i] = before[table_name][i]

IndexesFramed(before, after, records, table_name, set_items, slots) ==
    /\ DOMAIN after = DOMAIN before
    /\ \A k \in DOMAIN before :
          IF k[1] = table_name /\ k[2] \in SetColumns(set_items)
          THEN IndexMoved(before[k], after[k], records, slots, k[2], SetValue(set_items, k[2]))
          ELSE after[k] = before[k]

UpdateFramed(w, q, updated) ==
    /\ updated.count = Cardinality(MatchedSlots(w, q.table_name, q.where))
    /\ updated.w.tables = w.tables
    /\ updated.w.columns = w.columns
    /\ updated.w.indexes = w.indexes
    /\ updated.w.primary_keys = w.primary_keys
    /\ updated.w.foreign_keys = w.foreign_keys
    /\ FilesFramed(w.table_files, updated.w.table_files, q.table_name, q.set_items,
                   MatchedSlots(w, q.table_name, q.where))
    /\ IndexesFramed(w.index_files, updated.w.index_files, w.table_files[q.table_name],
                     q.table_name, q.set_items, MatchedSlots(w, q.table_name, q.where))

SuccessfulUpdateFramed(w, q, updated) == updated.ok => UpdateFramed(w, q, updated)

\* C30: a successful UPDATE changes only the SET columns of the live
\* records it matches, which keep their __id__ and slot; the other records,
\* the tombstoned ones, record_count and every other table are as before,
\* and only the indexes on SET columns change, each by the id of a matched
\* record leaving the value the record had for the new value.
C30_UpdateChangesOnlySetColumns ==
    \A t \in DOMAIN table_files : \A items \in SetLists(t), cond \in Conditions(t) :
        SuccessfulUpdateFramed(World, UpdateQuery(t, items, cond),
                               _execute_update(World, UpdateQuery(t, items, cond)))

====
